---- MODULE Spec2Model ----
(***************************************************************************)
(* Control plane of the JIT engine base class (JitBase): configuration     *)
(* snapshot, derived code-generation options and the BLR optimisation with *)
(* its native stack guard.                                                 *)
(*                                                                         *)
(* Every member function of JitBase is one atomic action.  Calls made to   *)
(* collaborators whose code is outside JitBase (block cache, core timing,  *)
(* memory protection, diagnostics) are recorded in `calls`, the list of    *)
(* collaborator calls made by the most recent operation, in call order.    *)
(* `op`, `ret` and `caller_is_cpu` name the most recent operation, its     *)
(* return value and the answer Core::IsCPUThread() gave it.                *)
(*                                                                         *)
(* Addresses and sizes are in units of 4 KiB.                              *)
(***************************************************************************)
EXTENDS Integers, Sequences, FiniteSets, TLC

VARIABLES
  \* ---- build / host environment (fixed for one run)
  win32,                 \* TRUE: the _WIN32 branches are compiled in
  stack_base,            \* Common::GetCurrentThreadStack().first  (CPU thread)
  stack_size,            \* Common::GetCurrentThreadStack().second (CPU thread)
  page_size,             \* sysconf(_SC_PAGESIZE)
  \* ---- values RefreshConfig read most recently from Config / Core::System
  config,
  \* ---- configuration snapshot (members of JitBase)
  bJIT,                  \* the thirteen bJIT...Off members, as one vector
  m_enable_debugging,
  m_enable_float_exceptions,
  m_enable_div_by_zero_exceptions,
  m_low_dcbz_hack,
  m_fprf,
  m_accurate_nans,
  m_fastmem_enabled,
  m_mmu_enabled,
  m_pause_on_panic_enabled,
  m_accurate_cpu_cache_enabled,
  analyzer,              \* PPCAnalyst::PPCAnalyzer option flags
  \* ---- code-generation options (JitOptions jo) and what they are derived from
  jo_enableBlocklink,
  jo_fastmem_arena,
  jo_fastmem,
  jo_memcheck,
  jo_fp_exceptions,
  jo_div_by_zero_exceptions,
  memchecks,             \* number of entries in PowerPC::memchecks
  msr_DR,                \* PowerPC::ppcState.msr.DR
  \* ---- BLR optimisation / stack guard
  m_enable_blr_optimization,
  m_cleanup_after_stackfault,
  m_stack_guard,         \* NULL or the guard address
  protected,             \* guard addresses made inaccessible and not yet restored
  \* ---- observation of the most recent operation
  op,
  ret,
  caller_is_cpu,
  calls,
  fault_handled,         \* HandleStackFault returned true since the last InitBLROptimization
  ever_faulted,          \* HandleStackFault returned true at some time for this instance
  arming_failure,        \* the diagnostic of a ProtectStack that failed since the last
                         \* InitBLROptimization, or "none"
  stack_middle_addr,     \* the stack position the latest arming attempt of ProtectStack
                         \* took (line 131), NULL before the first
  \* ---- a second engine run that shares the configuration snapshot, the
  \*      watchpoints and the arena, and has its own MSR and option values
  alt_msr_DR,
  alt_jo,
  alt_prev_agreed,       \* the two runs had equal option values before their latest update
  \* ---- ShouldHandleFPExceptionForInstruction
  fp_flags,              \* op->opinfo->flags of the instruction passed by the latest call
  \* ---- CanMergeNextInstructions
  cpu_stepping,          \* Core::System::GetInstance().GetCPU().IsStepping()
  js_instructionsLeft,   \* js.instructionsLeft
  js_op,                 \* js.op[0 .. js.instructionsLeft]: address, isBranchTarget
  breakpoints,           \* addresses for which PowerPC::breakpoints.IsAddressBreakPoint holds
  merge_count,           \* the argument of the latest call
  merge_reads,           \* the indices i for which the latest call read js.op[i]
  \* ---- configuration-changed notifications and the execution (CPU) thread
  cpu_pc,                \* what the CPU thread runs: "idle", "dispatch" or "compiled"
  refresher,             \* the thread inside RefreshConfig: "none", "cpu" or "foreign"
  refresh_pc,            \* how far that RefreshConfig got: "none", "reads" or "override"
  pending,               \* closures handed to Core::RunAsCPUThread and not yet started
  notified,              \* configuration-changed notifications raised
  started,               \* RefreshConfig executions begun for a notification
  refreshed,             \* RefreshConfig executions completed for a notification
  committed,             \* the snapshot as the latest completed RefreshConfig left it
  seen,                  \* the snapshot as the CPU thread last read it, or NoRead
  \* ---- the lifetime of the engine instance and its configuration callback
  alive,                 \* the instance is constructed and not yet destroyed
  registered,            \* the ids of this instance's callbacks held by the configuration store
  m_registered_config_callback_id,
  \* ---- the block cache behind Dispatch
  pc,                    \* the guest program counter
  block_cache,           \* the guest addresses that have a compiled entry
  dispatch_result,       \* the address whose entry the latest Dispatch returned, or NULL
  \* ---- NetKDRequestDevice: the scheduler buffer, its error log and the mail check
  m_scheduler_buffer,    \* words 0..63 of the buffer, each a u32 as four bytes, most
                         \* significant first
  m_error_count,         \* a u32 as four bytes, most significant first
  m_scheduler_buffer_lock, \* the thread holding the mutex, or "none"
  m_mail_span,
  m_download_span,
  kd,                    \* per thread: position inside LogError or KDCheckMail and locals
  kd_calls,              \* LogError and KDCheckMail calls begun
  kd_base_count,         \* m_error_count when the observation starts
  kd_increments          \* executions of m_error_count++ completed since then

envVars    == <<win32, stack_base, stack_size, page_size>>
snapVars   == <<config, bJIT, m_enable_debugging, m_enable_float_exceptions,
                m_enable_div_by_zero_exceptions, m_low_dcbz_hack, m_fprf,
                m_accurate_nans, m_fastmem_enabled, m_mmu_enabled,
                m_pause_on_panic_enabled, m_accurate_cpu_cache_enabled, analyzer>>
joInVars   == <<jo_enableBlocklink, jo_fastmem_arena, memchecks, msr_DR>>
joOutVars  == <<jo_fastmem, jo_memcheck, jo_fp_exceptions, jo_div_by_zero_exceptions>>
guardVars  == <<m_enable_blr_optimization, m_cleanup_after_stackfault,
                m_stack_guard, protected, fault_handled, ever_faulted, arming_failure,
                stack_middle_addr>>
obsVars    == <<op, ret, caller_is_cpu, calls>>
altVars    == <<alt_msr_DR, alt_jo, alt_prev_agreed>>
fpVars     == <<fp_flags>>
mergeVars  == <<cpu_stepping, js_instructionsLeft, js_op, breakpoints, merge_count, merge_reads>>
notifyVars == <<cpu_pc, refresher, refresh_pc, pending, notified, started, refreshed,
                committed, seen>>
lifeVars   == <<alive, registered, m_registered_config_callback_id>>
cacheVars  == <<pc, block_cache, dispatch_result>>
kdVars     == <<m_scheduler_buffer, m_error_count, m_scheduler_buffer_lock, m_mail_span,
                m_download_span, kd, kd_calls, kd_base_count, kd_increments>>
extVars    == <<fpVars, mergeVars, notifyVars, lifeVars, cacheVars, kdVars>>
jitVars    == <<envVars, snapVars, joInVars, joOutVars, guardVars, obsVars, altVars, fpVars,
                mergeVars, notifyVars, lifeVars, cacheVars>>
vars       == <<envVars, snapVars, joInVars, joOutVars, guardVars, obsVars, altVars, extVars>>

----------------------------------------------------------------------------
\* Bounds and program constants

MaxMemChecks == 2

\* The largest js.instructionsLeft
MaxInstructionsLeft == 2

\* The most configuration-changed notifications raised in one run
MaxNotifications == 2

\* The ids Config::AddConfigChangedCallback can return
\* LogError and KDCheckMail calls the model follows
MaxKDCalls == 2

CallbackIds == {1, 2}

\* Guest address of the first instruction of the window
WINDOW_START == 256

\* Address of the instruction at window position i
WindowAddress(i) == WINDOW_START + 4 * i

NULL == 0

\* JitBase.h, in units of 4 KiB: 256 KiB, 192 KiB, 64 KiB, SAFE_STACK_SIZE - GUARD_SIZE
SAFE_STACK_SIZE == 64
MIN_UNSAFE_STACK_SIZE == 48
GUARD_SIZE == 16
GUARD_OFFSET == SAFE_STACK_SIZE - GUARD_SIZE

StackBases    == {4, 7}
StackSizes    == {128}
PageSizes     == {-1, 1, 4}
\* offsets of &stack_addr (the current stack position) from the stack base
MiddleOffsets == {-1, 50, 111, 112, 113, 127, 128}

DebugJitFlags == {"all_off", "all_on"}

\* Every value the configuration store and Core::System can hand to RefreshConfig
Configs ==
  [debug_jit : DebugJitFlags, debugging : BOOLEAN, float_exceptions : BOOLEAN,
   div_by_zero_exceptions : BOOLEAN, low_dcbz_hack : BOOLEAN, fprf : BOOLEAN,
   accurate_nans : BOOLEAN, fastmem : BOOLEAN, mmu : BOOLEAN,
   pause_on_panic : BOOLEAN, accurate_cpu_cache : BOOLEAN, follow_branch : BOOLEAN]

ConfigKeys == {"debug_jit", "debugging", "float_exceptions", "div_by_zero_exceptions",
               "low_dcbz_hack", "fprf", "accurate_nans", "fastmem", "mmu",
               "pause_on_panic", "accurate_cpu_cache", "follow_branch"}

\* The settings the stack guard reads, and those the option derivation reads
GuardKeys  == {"debugging", "fastmem", "accurate_cpu_cache"}
OptionKeys == {"float_exceptions", "div_by_zero_exceptions", "low_dcbz_hack", "fastmem",
               "mmu", "pause_on_panic", "accurate_cpu_cache"}

DefaultConfig ==
  [debug_jit |-> "all_off", debugging |-> FALSE, float_exceptions |-> FALSE,
   div_by_zero_exceptions |-> FALSE, low_dcbz_hack |-> FALSE, fprf |-> FALSE,
   accurate_nans |-> FALSE, fastmem |-> FALSE, mmu |-> FALSE,
   pause_on_panic |-> FALSE, accurate_cpu_cache |-> FALSE, follow_branch |-> FALSE]

\* The configurations in which only the settings in keys differ from the default
ConfigsVarying(keys) == {c \in Configs : \A k \in ConfigKeys \ keys : c[k] = DefaultConfig[k]}

GuardConfigs  == ConfigsVarying(GuardKeys)
OptionConfigs == ConfigsVarying(OptionKeys)

\* Configuration c with setting k changed
Changed(c, k) ==
  IF k = "debug_jit"
    THEN [c EXCEPT ![k] = IF @ = "all_off" THEN "all_on" ELSE "all_off"]
    ELSE [c EXCEPT ![k] = ~@]

\* What a RefreshConfig can read when at most one setting in keys has changed since
\* the previous RefreshConfig.  A refresh overwrites the whole snapshot, so a change
\* of several settings leads to the state that the single changes lead to in turn.
Reread(keys) == {config} \cup {Changed(config, k) : k \in keys}

\* A collaborator call: the callee and its arguments as written at the call site
\* (numbers through ToString)
Call(fn, args) == [fn |-> fn, args |-> args]

Made(fn) == \E i \in 1..Len(calls) : calls[i].fn = fn
MadeCall(c) == \E i \in 1..Len(calls) : calls[i] = c
CountMade(fn) == Cardinality({i \in 1..Len(calls) : calls[i].fn = fn})

----------------------------------------------------------------------------
\* RefreshConfig

\* Fault: RefreshConfig without the accurate-cache override of fastmem
RefreshedFastmem_NoOverride(c) == c.fastmem

\* m_fastmem_enabled after the accurate-cache override
RefreshedFastmem(c) == IF c.accurate_cpu_cache THEN FALSE ELSE c.fastmem

\* m_low_dcbz_hack after the accurate-cache override
RefreshedLowDcbzHack(c) == IF c.accurate_cpu_cache THEN FALSE ELSE c.low_dcbz_hack

\* Fault: SetBranchFollowingEnabled is passed the debugging setting
RefreshedAnalyzer_BranchFollowingFromDebugging(c) ==
  [debugging |-> c.debugging, branch_following |-> c.debugging,
   float_exceptions |-> c.float_exceptions,
   div_by_zero_exceptions |-> c.div_by_zero_exceptions]

\* The analyzer flags RefreshConfig sets
RefreshedAnalyzer(c) ==
  [debugging |-> c.debugging, branch_following |-> c.follow_branch,
   float_exceptions |-> c.float_exceptions,
   div_by_zero_exceptions |-> c.div_by_zero_exceptions]

\* The configuration snapshot and the analyzer flags as a reader finds them
Snapshot ==
  [bJIT |-> bJIT,
   m_enable_debugging |-> m_enable_debugging,
   m_enable_float_exceptions |-> m_enable_float_exceptions,
   m_enable_div_by_zero_exceptions |-> m_enable_div_by_zero_exceptions,
   m_low_dcbz_hack |-> m_low_dcbz_hack,
   m_fprf |-> m_fprf,
   m_accurate_nans |-> m_accurate_nans,
   m_fastmem_enabled |-> m_fastmem_enabled,
   m_mmu_enabled |-> m_mmu_enabled,
   m_pause_on_panic_enabled |-> m_pause_on_panic_enabled,
   m_accurate_cpu_cache_enabled |-> m_accurate_cpu_cache_enabled,
   analyzer |-> analyzer]

\* The assignments of RefreshConfig, reading configuration c
RefreshConfigBody(c) ==
  /\ config' = c
  /\ bJIT' = c.debug_jit
  /\ m_enable_debugging' = c.debugging
  /\ m_enable_float_exceptions' = c.float_exceptions
  /\ m_enable_div_by_zero_exceptions' = c.div_by_zero_exceptions
  /\ m_low_dcbz_hack' = RefreshedLowDcbzHack(c)
  /\ m_fprf' = c.fprf
  /\ m_accurate_nans' = c.accurate_nans
  /\ m_fastmem_enabled' = RefreshedFastmem(c)
  /\ m_mmu_enabled' = c.mmu
  /\ m_pause_on_panic_enabled' = c.pause_on_panic
  /\ m_accurate_cpu_cache_enabled' = c.accurate_cpu_cache
  /\ analyzer' = RefreshedAnalyzer(c)

RefreshConfig(c) ==
  /\ RefreshConfigBody(c)
  /\ committed' = Snapshot'
  /\ op' = "RefreshConfig" /\ ret' = "void" /\ caller_is_cpu' = TRUE /\ calls' = <<>>
  /\ UNCHANGED <<envVars, joInVars, joOutVars, guardVars, altVars, lifeVars, kdVars, cacheVars, fpVars, mergeVars,
                 cpu_pc, refresher, refresh_pc, pending, notified, started, refreshed, seen>>

----------------------------------------------------------------------------
\* BLR optimisation and stack guard

\* Fault: the prerequisites without the debugging test
BLRPrerequisites_IgnoresDebugging == jo_enableBlocklink /\ m_fastmem_enabled

\* The prerequisites of the BLR optimisation
BLRPrerequisites == jo_enableBlocklink /\ m_fastmem_enabled /\ ~m_enable_debugging

InitBLROptimization ==
  /\ m_enable_blr_optimization' = BLRPrerequisites
  /\ m_cleanup_after_stackfault' = FALSE
  /\ fault_handled' = FALSE
  /\ arming_failure' = "none"
  /\ op' = "InitBLROptimization" /\ ret' = "void" /\ caller_is_cpu' = TRUE /\ calls' = <<>>
  /\ UNCHANGED <<envVars, snapVars, joInVars, joOutVars, m_stack_guard, protected,
                 ever_faulted, stack_middle_addr, altVars, extVars>>

\* Common::AlignUp
AlignUp(value, size) == ((value + size - 1) \div size) * size

\* Fault: the guard address without the alignment to the page size
StackGuardAddr_Unaligned == stack_base + GUARD_OFFSET

\* stack_guard_addr of ProtectStack
StackGuardAddr == AlignUp(stack_base + GUARD_OFFSET, page_size)

\* Fault: the stack-bounds check without its upper bound
StackBaseCheckFails_NoUpperBound(stack_middle) == stack_middle < stack_base

StackBaseCheckFails(stack_middle) ==
  stack_middle < stack_base \/ stack_middle >= stack_base + stack_size

PageSizeCheckFails == page_size <= 0

\* Fault: the margin check also rejects a margin of exactly the required size
StackTooSmall_Strict(stack_middle) ==
  \/ StackGuardAddr >= stack_middle
  \/ stack_middle - StackGuardAddr <= GUARD_SIZE + MIN_UNSAFE_STACK_SIZE

StackTooSmall(stack_middle) ==
  \/ StackGuardAddr >= stack_middle
  \/ stack_middle - StackGuardAddr < GUARD_SIZE + MIN_UNSAFE_STACK_SIZE

\* Fault: a failed arming check that leaves the optimisation enabled
ProtectStackFails_KeepsEnabled(message) ==
  /\ calls' = <<Call("PanicAlertFmt", <<message>>)>>
  /\ arming_failure' = message
  /\ UNCHANGED <<m_enable_blr_optimization, m_cleanup_after_stackfault, m_stack_guard,
                 protected, fault_handled, ever_faulted>>

\* One failed arming check: a diagnostic, and the optimisation is switched off
ProtectStackFails(message) ==
  /\ calls' = <<Call("PanicAlertFmt", <<message>>)>>
  /\ m_enable_blr_optimization' = FALSE
  /\ arming_failure' = message
  /\ UNCHANGED <<m_cleanup_after_stackfault, m_stack_guard, protected, fault_handled,
                 ever_faulted>>

\* Fault: ProtectStack without its early return
ProtectStackSkips_Never == FALSE

\* Fault: the early return of ProtectStack with its test inverted
ProtectStackSkips_WhenEnabled == m_enable_blr_optimization

\* The early return of ProtectStack
ProtectStackSkips == ~m_enable_blr_optimization

\* stack_middle is the address of ProtectStack's local variable stack_addr
ProtectStack(stack_middle) ==
  /\ op' = "ProtectStack" /\ ret' = "void" /\ caller_is_cpu' = TRUE
  /\ IF ProtectStackSkips
       THEN calls' = <<>> /\ UNCHANGED guardVars
     ELSE IF win32
       THEN /\ calls' = <<Call("SetThreadStackGuarantee", <<ToString(SAFE_STACK_SIZE)>>)>>
            /\ UNCHANGED guardVars
     ELSE /\ stack_middle_addr' = stack_middle
          /\ IF StackBaseCheckFails(stack_middle)
               THEN ProtectStackFails("Failed to get correct stack base")
             ELSE IF PageSizeCheckFails
               THEN ProtectStackFails("Failed to get page size")
             ELSE IF StackTooSmall(stack_middle)
               THEN ProtectStackFails("Stack is too small for BLR optimization")
             ELSE /\ m_stack_guard' = StackGuardAddr
                  /\ protected' = protected \cup {StackGuardAddr}
                  /\ calls' = <<Call("ReadProtectMemory",
                                     <<ToString(StackGuardAddr), ToString(GUARD_SIZE)>>)>>
                  /\ UNCHANGED <<m_enable_blr_optimization, m_cleanup_after_stackfault,
                                 fault_handled, ever_faulted, arming_failure>>
  /\ UNCHANGED <<envVars, snapVars, joInVars, joOutVars, altVars, extVars>>

\* Fault: UnprotectStack without the test of m_stack_guard
UnprotectStackActs_Always == ~win32

\* UnprotectStack restores access exactly when a guard is recorded (never on _WIN32)
UnprotectStackActs == ~win32 /\ m_stack_guard # NULL

UnprotectStackCalls ==
  IF UnprotectStackActs
    THEN <<Call("UnWriteProtectMemory", <<ToString(m_stack_guard), ToString(GUARD_SIZE)>>)>>
    ELSE <<>>

\* Fault: UnprotectStack restores access but keeps the guard recorded
UnprotectStackGuard_Kept == m_stack_guard

\* m_stack_guard after UnprotectStack
UnprotectStackGuard == IF UnprotectStackActs THEN NULL ELSE m_stack_guard

\* Fault: UnprotectStack clears m_stack_guard without restoring access
UnprotectStackProtected_Kept == protected

\* The protected memory after UnprotectStack
UnprotectStackProtected == IF UnprotectStackActs THEN protected \ {m_stack_guard} ELSE protected

UnprotectStack ==
  /\ m_stack_guard' = UnprotectStackGuard
  /\ protected' = UnprotectStackProtected
  /\ calls' = UnprotectStackCalls
  /\ op' = "UnprotectStack" /\ ret' = "void" /\ caller_is_cpu' = TRUE
  /\ UNCHANGED <<envVars, snapVars, joInVars, joOutVars, m_enable_blr_optimization,
                 m_cleanup_after_stackfault, fault_handled, ever_faulted, arming_failure,
                 stack_middle_addr, altVars, extVars>>

\* Fault: HandleStackFault without the thread check
HandleStackFaultDeclines_NoThreadCheck(is_cpu_thread) == ~m_enable_blr_optimization

\* Fault: HandleStackFault claims every fault
HandleStackFaultDeclines_Never(is_cpu_thread) == FALSE

\* The early return of HandleStackFault; is_cpu_thread is Core::IsCPUThread()
HandleStackFaultDeclines(is_cpu_thread) == ~m_enable_blr_optimization \/ ~is_cpu_thread

\* Fault: HandleStackFault leaves the optimisation enabled
BLRAfterStackFault_Kept == m_enable_blr_optimization

\* m_enable_blr_optimization as HandleStackFault leaves it when it claims the fault
BLRAfterStackFault == FALSE

\* Fault: HandleStackFault does not force the exception check
StackFaultRecoveryCalls_NoForcedCheck ==
  << Call("InvalidateICache", <<"0", "0xffffffff", "true">>) >>

\* Fault: HandleStackFault clears the cache itself
StackFaultRecoveryCalls_ClearsCache ==
  << Call("InvalidateICache", <<"0", "0xffffffff", "true">>),
     Call("ForceExceptionCheck", <<"0">>),
     Call("ClearCache", <<>>) >>

\* The block-cache and core-timing calls of a claimed fault
StackFaultRecoveryCalls ==
  << Call("InvalidateICache", <<"0", "0xffffffff", "true">>),
     Call("ForceExceptionCheck", <<"0">>) >>

\* m_cleanup_after_stackfault as HandleStackFault leaves it when it claims the fault
CleanupAfterStackFault == TRUE

\* The block cache after InvalidateICache(0, 0xffffffff, true) or ClearCache
InvalidatedBlockCache == {}

HandleStackFault(is_cpu_thread) ==
  /\ op' = "HandleStackFault" /\ caller_is_cpu' = is_cpu_thread
  /\ IF HandleStackFaultDeclines(is_cpu_thread)
       THEN /\ ret' = "false"
            /\ calls' = <<>>
            /\ UNCHANGED <<guardVars, block_cache>>
       ELSE /\ calls' = <<Call("WARN_LOG_FMT", <<"BLR cache disabled">>)>>
                         \o UnprotectStackCalls \o StackFaultRecoveryCalls
            /\ m_stack_guard' = UnprotectStackGuard
            /\ protected' = UnprotectStackProtected
            /\ m_enable_blr_optimization' = BLRAfterStackFault
            /\ m_cleanup_after_stackfault' = CleanupAfterStackFault
            /\ fault_handled' = TRUE
            /\ ever_faulted' = TRUE
            /\ ret' = "true"
            /\ block_cache' = InvalidatedBlockCache
            /\ UNCHANGED <<arming_failure, stack_middle_addr>>
  /\ UNCHANGED <<envVars, snapVars, joInVars, joOutVars, altVars, fpVars, mergeVars,
                 notifyVars, lifeVars, kdVars, pc, dispatch_result>>

\* Fault: the deferred cleanup without ClearCache
CleanUpCalls_NoClearCache == IF win32 THEN <<Call("_resetstkoflw", <<>>)>> ELSE <<>>

\* The calls of the deferred cleanup, in order
CleanUpCalls ==
  <<Call("ClearCache", <<>>)>> \o (IF win32 THEN <<Call("_resetstkoflw", <<>>)>> ELSE <<>>)

\* Fault: CleanUpAfterStackFault never finds a cleanup pending
CleanUpPending_Never == FALSE

\* The test of CleanUpAfterStackFault
CleanUpPending == m_cleanup_after_stackfault

CleanUpAfterStackFault ==
  /\ op' = "CleanUpAfterStackFault" /\ ret' = "void" /\ caller_is_cpu' = TRUE
  /\ IF CleanUpPending
       THEN /\ calls' = CleanUpCalls
            /\ m_cleanup_after_stackfault' = FALSE
            /\ block_cache' = InvalidatedBlockCache
       ELSE /\ calls' = <<>>
            /\ UNCHANGED <<m_cleanup_after_stackfault, block_cache>>
  /\ UNCHANGED <<envVars, snapVars, joInVars, joOutVars, m_enable_blr_optimization,
                 m_stack_guard, protected, fault_handled, ever_faulted, arming_failure,
                 stack_middle_addr, altVars, fpVars, mergeVars, notifyVars, lifeVars, kdVars,
                 pc, dispatch_result>>

----------------------------------------------------------------------------
\* Code-generation options

\* PowerPC::memchecks.HasAny()
AnyWatchpoints == memchecks > 0

\* Fault: jo.fastmem derived without asking for the arena
FastmemOption_NoArena(dr) == m_fastmem_enabled /\ (dr \/ ~AnyWatchpoints)

\* jo.fastmem for MSR.DR = dr
FastmemOption(dr) == m_fastmem_enabled /\ jo_fastmem_arena /\ (dr \/ ~AnyWatchpoints)

\* Fault: jo.memcheck derived without the pause-on-panic mode
MemcheckOption_NoPauseOnPanic == m_mmu_enabled \/ AnyWatchpoints

MemcheckOption == m_mmu_enabled \/ m_pause_on_panic_enabled \/ AnyWatchpoints

\* Fault: the two exception options assigned crosswise
UpdatedOptions_Swapped(prev, dr) ==
  [fastmem |-> FastmemOption(dr),
   memcheck |-> MemcheckOption,
   fp_exceptions |-> m_enable_div_by_zero_exceptions,
   div_by_zero_exceptions |-> m_enable_float_exceptions]

\* Fault: jo.fastmem, once set, is kept
UpdatedOptions_Sticky(prev, dr) ==
  [fastmem |-> prev.fastmem \/ FastmemOption(dr),
   memcheck |-> MemcheckOption,
   fp_exceptions |-> m_enable_float_exceptions,
   div_by_zero_exceptions |-> m_enable_div_by_zero_exceptions]

\* The option values UpdateMemoryAndExceptionOptions assigns, for an engine whose
\* options were prev before the call and whose MSR.DR is dr
UpdatedOptions(prev, dr) ==
  [fastmem |-> FastmemOption(dr),
   memcheck |-> MemcheckOption,
   fp_exceptions |-> m_enable_float_exceptions,
   div_by_zero_exceptions |-> m_enable_div_by_zero_exceptions]

CurrentOptions ==
  [fastmem |-> jo_fastmem, memcheck |-> jo_memcheck, fp_exceptions |-> jo_fp_exceptions,
   div_by_zero_exceptions |-> jo_div_by_zero_exceptions]

UpdateMemoryAndExceptionOptions ==
  /\ jo_fastmem' = UpdatedOptions(CurrentOptions, msr_DR).fastmem
  /\ jo_memcheck' = UpdatedOptions(CurrentOptions, msr_DR).memcheck
  /\ jo_fp_exceptions' = UpdatedOptions(CurrentOptions, msr_DR).fp_exceptions
  /\ jo_div_by_zero_exceptions' = UpdatedOptions(CurrentOptions, msr_DR).div_by_zero_exceptions
  /\ op' = "UpdateMemoryAndExceptionOptions" /\ ret' = "void" /\ caller_is_cpu' = TRUE
  /\ calls' = <<>>
  /\ UNCHANGED <<envVars, snapVars, joInVars, guardVars, altVars, extVars>>

\* Both engine runs execute UpdateMemoryAndExceptionOptions
UpdateMemoryAndExceptionOptionsPair ==
  /\ jo_fastmem' = UpdatedOptions(CurrentOptions, msr_DR).fastmem
  /\ jo_memcheck' = UpdatedOptions(CurrentOptions, msr_DR).memcheck
  /\ jo_fp_exceptions' = UpdatedOptions(CurrentOptions, msr_DR).fp_exceptions
  /\ jo_div_by_zero_exceptions' = UpdatedOptions(CurrentOptions, msr_DR).div_by_zero_exceptions
  /\ alt_jo' = UpdatedOptions(alt_jo, alt_msr_DR)
  /\ alt_prev_agreed' = (alt_jo = CurrentOptions)
  /\ op' = "UpdateMemoryAndExceptionOptions" /\ ret' = "void" /\ caller_is_cpu' = TRUE
  /\ calls' = <<>>
  /\ UNCHANGED <<envVars, snapVars, joInVars, guardVars, alt_msr_DR, extVars>>

----------------------------------------------------------------------------
\* What the options are derived from and JitBase does not own

Environment ==
  op' = "environment" /\ ret' = "void" /\ caller_is_cpu' = TRUE /\ calls' = <<>>

\* A memory watchpoint is added to PowerPC::memchecks
AddMemCheck ==
  /\ memchecks < MaxMemChecks
  /\ memchecks' = memchecks + 1
  /\ Environment
  /\ UNCHANGED <<envVars, snapVars, jo_enableBlocklink, jo_fastmem_arena, msr_DR,
                 joOutVars, guardVars, altVars, extVars>>

\* A memory watchpoint is removed from PowerPC::memchecks
RemoveMemCheck ==
  /\ memchecks > 0
  /\ memchecks' = memchecks - 1
  /\ Environment
  /\ UNCHANGED <<envVars, snapVars, jo_enableBlocklink, jo_fastmem_arena, msr_DR,
                 joOutVars, guardVars, altVars, extVars>>

\* The guest writes MSR.DR
WriteMSR(dr) ==
  /\ msr_DR' = dr
  /\ Environment
  /\ UNCHANGED <<envVars, snapVars, jo_enableBlocklink, jo_fastmem_arena, memchecks,
                 joOutVars, guardVars, altVars, extVars>>

\* The guest of the second run writes MSR.DR
AltWriteMSR(dr) ==
  /\ alt_msr_DR' = dr
  /\ Environment
  /\ UNCHANGED <<envVars, snapVars, joInVars, joOutVars, guardVars, alt_jo,
                 alt_prev_agreed, extVars>>

----------------------------------------------------------------------------
\* ShouldHandleFPExceptionForInstruction

\* The bits of op->opinfo->flags: the two the function tests and one it does not
InstructionFlags == {"FL_FLOAT_EXCEPTION", "FL_FLOAT_DIV", "FL_RC_BIT"}

\* (flags & bit) != 0
HasFlag(flags, bit) == bit \in flags

\* Fault: either option lets either flag through
ShouldHandleFPException_AnyFlag(flags) ==
  (jo_fp_exceptions \/ jo_div_by_zero_exceptions)
    /\ (HasFlag(flags, "FL_FLOAT_EXCEPTION") \/ HasFlag(flags, "FL_FLOAT_DIV"))

\* Fault: the divide-by-zero option is tested first
ShouldHandleFPException_DivideFirst(flags) ==
  IF jo_div_by_zero_exceptions
    THEN HasFlag(flags, "FL_FLOAT_DIV")
  ELSE IF jo_fp_exceptions
    THEN HasFlag(flags, "FL_FLOAT_EXCEPTION")
  ELSE FALSE

\* The value returned for an instruction whose opinfo flags are flags
ShouldHandleFPException(flags) ==
  IF jo_fp_exceptions
    THEN HasFlag(flags, "FL_FLOAT_EXCEPTION")
  ELSE IF jo_div_by_zero_exceptions
    THEN HasFlag(flags, "FL_FLOAT_DIV")
  ELSE FALSE

ShouldHandleFPExceptionForInstruction(flags) ==
  /\ fp_flags' = flags
  /\ ret' = IF ShouldHandleFPException(flags) THEN "true" ELSE "false"
  /\ op' = "ShouldHandleFPExceptionForInstruction" /\ caller_is_cpu' = TRUE /\ calls' = <<>>
  /\ UNCHANGED <<envVars, snapVars, joInVars, joOutVars, guardVars, altVars, lifeVars, kdVars, cacheVars, mergeVars,
                 notifyVars>>

----------------------------------------------------------------------------
\* CanMergeNextInstructions

\* The largest window a block under compilation can leave: positions 0 .. n
Windows(n) ==
  [0..n -> [address : {WindowAddress(i) : i \in 0..n}, isBranchTarget : BOOLEAN]]

\* The windows whose entries carry the addresses of consecutive instructions
ContiguousWindows(n) == {w \in Windows(n) : \A i \in 0..n : w[i].address = WindowAddress(i)}

\* Fault: the early return without the single-step test
MergeEarlyReturn_NoStepping(count) == js_instructionsLeft < count

\* Fault: the early return also rejects a window of exactly count instructions
MergeEarlyReturn_NeedsSpare(count) == cpu_stepping \/ js_instructionsLeft <= count

\* The early return of CanMergeNextInstructions
MergeEarlyReturn(count) == cpu_stepping \/ js_instructionsLeft < count

\* Fault: a breakpoint counts whether or not debugging is enabled
BreakpointHit_IgnoresDebugging(i) == js_op[i].address \in breakpoints

\* m_enable_debugging && PowerPC::breakpoints.IsAddressBreakPoint(js.op[i].address)
BreakpointHit(i) == m_enable_debugging /\ js_op[i].address \in breakpoints

\* Fault: a branch target counts only when debugging is enabled
BranchTargetHit_OnlyWhenDebugging(i) == m_enable_debugging /\ js_op[i].isBranchTarget

\* js.op[i].isBranchTarget
BranchTargetHit(i) == js_op[i].isBranchTarget

\* Index of the first window entry the loop inspects
MERGE_FIRST == 1

RECURSIVE MergeScan(_, _)
\* The loop from iteration i on: the value it makes the function return and the
\* window entries it reads
MergeScan(i, count) ==
  IF i > count
    THEN [result |-> TRUE, reads |-> {}]
  ELSE IF BreakpointHit(i) \/ BranchTargetHit(i)
    THEN [result |-> FALSE, reads |-> {i}]
  ELSE [result |-> MergeScan(i + 1, count).result,
        reads |-> {i} \cup MergeScan(i + 1, count).reads]

\* Return value and window entries read for argument count
CanMerge(count) ==
  IF MergeEarlyReturn(count)
    THEN [result |-> FALSE, reads |-> {}]
    ELSE MergeScan(MERGE_FIRST, count)

CanMergeNextInstructions(count) ==
  /\ merge_count' = count
  /\ merge_reads' = CanMerge(count).reads
  /\ ret' = IF CanMerge(count).result THEN "true" ELSE "false"
  /\ op' = "CanMergeNextInstructions" /\ caller_is_cpu' = TRUE /\ calls' = <<>>
  /\ UNCHANGED <<envVars, snapVars, joInVars, joOutVars, guardVars, altVars, lifeVars, kdVars, cacheVars, fpVars,
                 cpu_stepping, js_instructionsLeft, js_op, breakpoints, notifyVars>>

----------------------------------------------------------------------------
\* Configuration-changed notifications, and RefreshConfig step by step beside
\* the CPU thread

\* The settings whose refresh passes through the accurate-cache override
NotifyKeys == {"fastmem", "low_dcbz_hack", "accurate_cpu_cache", "follow_branch"}

Threads == {"cpu", "foreign"}

\* The CPU thread has not entered the dispatcher yet
NoRead == [read |-> FALSE]

\* The CPU thread is at a point where it runs closures handed to Core::RunAsCPUThread
CPUAtBoundary == cpu_pc = "idle" /\ refresher = "none"

\* The configuration store changes and raises its notification on thread `from`;
\* the registered callback hands the RefreshConfig closure to Core::RunAsCPUThread
ConfigChanged(c, from) ==
  /\ notified < MaxNotifications
  /\ m_registered_config_callback_id \in registered
  /\ from = "cpu" => CPUAtBoundary
  /\ config' = c
  /\ notified' = notified + 1
  /\ pending' = pending + 1
  /\ op' = "ConfigChanged" /\ ret' = "void" /\ caller_is_cpu' = (from = "cpu")
  /\ calls' = <<Call("RunAsCPUThread", <<"RefreshConfig">>)>>
  /\ UNCHANGED <<envVars, bJIT, m_enable_debugging, m_enable_float_exceptions,
                 m_enable_div_by_zero_exceptions, m_low_dcbz_hack, m_fprf, m_accurate_nans,
                 m_fastmem_enabled, m_mmu_enabled, m_pause_on_panic_enabled,
                 m_accurate_cpu_cache_enabled, analyzer, joInVars, joOutVars, guardVars,
                 altVars, lifeVars, kdVars, cacheVars, fpVars, mergeVars, cpu_pc, refresher, refresh_pc, started,
                 refreshed, committed, seen>>

\* Fault: the callback calls RefreshConfig on whichever thread raised the notification
CallbackRunsOn_Any(thread) == TRUE

\* The thread on which the callback's closure runs RefreshConfig
CallbackRunsOn(thread) == thread = "cpu"

\* RefreshConfig begins for one notification: the reads of the settings
RefreshReads(thread) ==
  /\ pending > 0 /\ refresher = "none"
  /\ CallbackRunsOn(thread)
  /\ thread = "cpu" => CPUAtBoundary
  /\ bJIT' = config.debug_jit
  /\ m_enable_debugging' = config.debugging
  /\ m_enable_float_exceptions' = config.float_exceptions
  /\ m_enable_div_by_zero_exceptions' = config.div_by_zero_exceptions
  /\ m_low_dcbz_hack' = config.low_dcbz_hack
  /\ m_fprf' = config.fprf
  /\ m_accurate_nans' = config.accurate_nans
  /\ m_fastmem_enabled' = config.fastmem
  /\ m_mmu_enabled' = config.mmu
  /\ m_pause_on_panic_enabled' = config.pause_on_panic
  /\ m_accurate_cpu_cache_enabled' = config.accurate_cpu_cache
  /\ pending' = pending - 1
  /\ started' = started + 1
  /\ refresher' = thread /\ refresh_pc' = "reads"
  /\ op' = "RefreshConfig" /\ ret' = "void" /\ caller_is_cpu' = (thread = "cpu")
  /\ calls' = <<>>
  /\ UNCHANGED <<envVars, config, analyzer, joInVars, joOutVars, guardVars, altVars, lifeVars, kdVars, cacheVars,
                 fpVars, mergeVars, cpu_pc, notified, refreshed, committed, seen>>

\* Fault: RefreshConfig without the override of m_fastmem_enabled
OverriddenFastmem_Skipped == m_fastmem_enabled

\* m_fastmem_enabled after the accurate-cache override
OverriddenFastmem == IF m_accurate_cpu_cache_enabled THEN FALSE ELSE m_fastmem_enabled

\* m_low_dcbz_hack after the accurate-cache override
OverriddenLowDcbzHack == IF m_accurate_cpu_cache_enabled THEN FALSE ELSE m_low_dcbz_hack

\* RefreshConfig continues: the accurate-cache override
RefreshOverride ==
  /\ refresh_pc = "reads"
  /\ m_fastmem_enabled' = OverriddenFastmem
  /\ m_low_dcbz_hack' = OverriddenLowDcbzHack
  /\ refresh_pc' = "override"
  /\ op' = "RefreshConfig" /\ ret' = "void" /\ caller_is_cpu' = (refresher = "cpu")
  /\ calls' = <<>>
  /\ UNCHANGED <<envVars, config, bJIT, m_enable_debugging, m_enable_float_exceptions,
                 m_enable_div_by_zero_exceptions, m_fprf, m_accurate_nans, m_mmu_enabled,
                 m_pause_on_panic_enabled, m_accurate_cpu_cache_enabled, analyzer,
                 joInVars, joOutVars, guardVars, altVars, lifeVars, kdVars, cacheVars, fpVars, mergeVars, cpu_pc,
                 refresher, pending, notified, started, refreshed, committed, seen>>

\* RefreshConfig ends: the analyzer flags
RefreshAnalyzer ==
  /\ refresh_pc = "override"
  /\ analyzer' = [debugging |-> m_enable_debugging,
                  branch_following |-> config.follow_branch,
                  float_exceptions |-> m_enable_float_exceptions,
                  div_by_zero_exceptions |-> m_enable_div_by_zero_exceptions]
  /\ committed' = [Snapshot EXCEPT !.analyzer = analyzer']
  /\ refreshed' = refreshed + 1
  /\ refresher' = "none" /\ refresh_pc' = "none"
  /\ op' = "RefreshConfig" /\ ret' = "void" /\ caller_is_cpu' = (refresher = "cpu")
  /\ calls' = <<>>
  /\ UNCHANGED <<envVars, config, bJIT, m_enable_debugging, m_enable_float_exceptions,
                 m_enable_div_by_zero_exceptions, m_low_dcbz_hack, m_fprf, m_accurate_nans,
                 m_fastmem_enabled, m_mmu_enabled, m_pause_on_panic_enabled,
                 m_accurate_cpu_cache_enabled, joInVars, joOutVars, guardVars, altVars, lifeVars, kdVars, cacheVars,
                 fpVars, mergeVars, cpu_pc, pending, notified, started, seen>>

\* The CPU thread is free to run the dispatcher or compiled code
CPUFree == refresher # "cpu"

\* The guest addresses the program counter takes
GuestPCs == {WindowAddress(0), WindowAddress(1)}

\* Fault: JitTrampoline compiles the block after the requested one
JitAddress_Next(em_address) == em_address + 4

\* The address JitTrampoline passes to Jit
JitAddress(em_address) == em_address

\* JitTrampoline(jit, em_address): the call it makes
JitTrampoline(em_address) == <<Call("Jit", <<ToString(JitAddress(em_address))>>)>>

\* JitBase::Dispatch: the CPU thread enters the block cache's dispatcher, which
\* returns the entry for the program counter, compiled through JitTrampoline
\* when the cache has none
Dispatch ==
  /\ alive
  /\ cpu_pc = "idle" /\ CPUFree
  /\ cpu_pc' = "dispatch"
  /\ seen' = Snapshot
  /\ op' = "Dispatch" /\ ret' = "void" /\ caller_is_cpu' = TRUE
  /\ IF pc \in block_cache
       THEN /\ calls' = <<Call("Dispatch", <<>>)>>
            /\ dispatch_result' = pc
            /\ UNCHANGED block_cache
       ELSE /\ calls' = <<Call("Dispatch", <<>>)>> \o JitTrampoline(pc)
            /\ block_cache' = block_cache \cup {JitAddress(pc)}
            /\ dispatch_result' = JitAddress(pc)
  /\ UNCHANGED <<envVars, snapVars, joInVars, joOutVars, guardVars, altVars, lifeVars, kdVars,
                 fpVars, mergeVars, refresher, refresh_pc, pending, notified, started,
                 refreshed, committed, pc>>

\* The dispatcher enters a compiled block
CompiledCode ==
  /\ cpu_pc = "dispatch"
  /\ cpu_pc' = "compiled"
  /\ seen' = Snapshot
  /\ op' = "CompiledCode" /\ ret' = "void" /\ caller_is_cpu' = TRUE /\ calls' = <<>>
  /\ UNCHANGED <<envVars, snapVars, joInVars, joOutVars, guardVars, altVars, lifeVars, kdVars, cacheVars, fpVars,
                 mergeVars, refresher, refresh_pc, pending, notified, started, refreshed,
                 committed>>

\* The compiled block returns and the CPU thread reaches a boundary
LeaveCompiledCode ==
  /\ cpu_pc = "compiled"
  /\ cpu_pc' = "idle"
  /\ op' = "LeaveCompiledCode" /\ ret' = "void" /\ caller_is_cpu' = TRUE /\ calls' = <<>>
  /\ UNCHANGED <<envVars, snapVars, joInVars, joOutVars, guardVars, altVars, lifeVars, kdVars, cacheVars, fpVars,
                 mergeVars, refresher, refresh_pc, pending, notified, started, refreshed,
                 committed, seen>>

\* The id the destructor passes to Config::RemoveConfigChangedCallback
RemovedCallbackId == m_registered_config_callback_id

\* JitBase::~JitBase, called by the owner while the CPU thread is at a boundary
DestroyJitBase ==
  /\ alive /\ CPUAtBoundary
  /\ alive' = FALSE
  /\ registered' = registered \ {RemovedCallbackId}
  /\ calls' = <<Call("RemoveConfigChangedCallback", <<ToString(RemovedCallbackId)>>)>>
  /\ op' = "~JitBase" /\ ret' = "void" /\ caller_is_cpu' = TRUE
  /\ UNCHANGED <<envVars, snapVars, joInVars, joOutVars, guardVars, altVars, fpVars,
                 mergeVars, notifyVars, m_registered_config_callback_id, cacheVars, kdVars>>

\* A closure handed over before the destruction runs on the destroyed instance:
\* the dangling `this` either still takes the writes of RefreshConfig (the steps
\* RefreshReads, RefreshOverride, RefreshAnalyzer) or the access faults
DanglingRefreshCrashes ==
  /\ ~alive /\ pending > 0 /\ CPUAtBoundary
  /\ pending' = pending - 1
  /\ cpu_pc' = "crashed"
  /\ op' = "crash" /\ ret' = "void" /\ caller_is_cpu' = TRUE /\ calls' = <<>>
  /\ UNCHANGED <<envVars, snapVars, joInVars, joOutVars, guardVars, altVars, fpVars,
                 mergeVars, refresher, refresh_pc, notified, started, refreshed, committed,
                 seen, lifeVars, kdVars, cacheVars>>

\* Compiled code branches: the guest program counter becomes a
GuestBranch(a) ==
  /\ cpu_pc = "compiled"
  /\ pc' = a
  /\ op' = "GuestBranch" /\ ret' = "void" /\ caller_is_cpu' = TRUE /\ calls' = <<>>
  /\ UNCHANGED <<envVars, snapVars, joInVars, joOutVars, guardVars, altVars, fpVars,
                 mergeVars, notifyVars, lifeVars, kdVars, block_cache, dispatch_result>>

----------------------------------------------------------------------------
\* NetKDRequestDevice: the error log and the mail check

\* The work-queue thread and the scheduler work-queue thread
KDThreads == {"worker", "scheduler"}

\* The words of m_scheduler_buffer the model keeps
BufferIndices == 0..63

\* A u32 below 2^31 as four bytes, most significant first
U32Bytes(x) == <<x \div 16777216, (x \div 65536) % 256, (x \div 256) % 256, x % 256>>

\* An s32 as the u32 of the same bits (two's complement)
ToWord(n) ==
  IF n >= 0
    THEN U32Bytes(n)
    ELSE LET b == U32Bytes(-(n + 1)) IN <<255 - b[1], 255 - b[2], 255 - b[3], 255 - b[4]>>

ZeroWord == ToWord(0)

\* Common::swap32: the bytes in reverse order
Swap32(w) == <<w[4], w[3], w[2], w[1]>>

\* w + 1 in u32 arithmetic
U32Inc(w) ==
  IF w[4] < 255 THEN <<w[1], w[2], w[3], w[4] + 1>>
  ELSE IF w[3] < 255 THEN <<w[1], w[2], w[3] + 1, 0>>
  ELSE IF w[2] < 255 THEN <<w[1], w[2] + 1, 0, 0>>
  ELSE IF w[1] < 255 THEN <<w[1] + 1, 0, 0, 0>>
  ELSE <<0, 0, 0, 0>>

RECURSIVE U32Add(_, _)
\* w + n in u32 arithmetic
U32Add(w, n) == IF n = 0 THEN w ELSE U32Add(U32Inc(w), n - 1)

ErrorTypes == {"Account", "Client", "KD_Download", "Server", "CheckMail"}

\* Error codes the callers pass: NWC24 error codes and an HTTP status
ErrorCodes == {-15, 404}

\* new_code of LogError
NewCode(error_type, error_code) ==
  CASE error_type = "Account"     -> -(101200 - error_code)
    [] error_type = "Client"      -> -(107300 - error_code)
    [] error_type = "KD_Download" -> -(107200 - error_code)
    [] error_type = "Server"      -> -(117000 + error_code)
    [] error_type = "CheckMail"   -> -(102200 - error_code)

\* 32 + (m_error_count % 32); 2^8 is a multiple of 32, so the low byte decides
ErrorSlot(count) == 32 + (count[4] % 32)

\* Fault: a lock_guard that does not wait
BufferLockFree_Ignored(t) == TRUE

\* std::lock_guard lg(m_scheduler_buffer_lock) can be entered by thread t
BufferLockFree(t) == m_scheduler_buffer_lock = "none"

CurrentFunction_None == 0
CurrentFunction_Check == 2

\* The members' initializers
INITIAL_MAIL_SPAN == 1
INITIAL_DOWNLOAD_SPAN == 2

\* The locals of a thread that is in neither function
KDIdle ==
  [pc |-> "idle", new_code |-> 0, loaded |-> ZeroWord, success |-> FALSE,
   ret |-> "none", path |-> "none", mail_flag |-> 0, interval |-> 0,
   headers |-> <<{}, {}>>]

LogError(t, error_type, error_code) ==
  /\ kd[t].pc = "idle" /\ kd_calls < MaxKDCalls
  /\ kd' = [kd EXCEPT ![t] = [KDIdle EXCEPT !.pc = "log_lock",
                                            !.new_code = NewCode(error_type, error_code)]]
  /\ kd_calls' = kd_calls + 1
  /\ UNCHANGED <<m_scheduler_buffer, m_error_count, m_scheduler_buffer_lock, m_mail_span,
                 m_download_span, kd_base_count, kd_increments, jitVars>>

\* std::lock_guard lg(m_scheduler_buffer_lock)
LogErrorLock(t) ==
  /\ kd[t].pc = "log_lock" /\ BufferLockFree(t)
  /\ m_scheduler_buffer_lock' = t
  /\ kd' = [kd EXCEPT ![t].pc = "log_slot"]
  /\ UNCHANGED <<m_scheduler_buffer, m_error_count, m_mail_span, m_download_span, kd_calls,
                 kd_base_count, kd_increments, jitVars>>

\* m_scheduler_buffer[32 + (m_error_count % 32)] = Common::swap32(new_code)
LogErrorWriteSlot(t) ==
  /\ kd[t].pc = "log_slot"
  /\ m_scheduler_buffer' = [m_scheduler_buffer EXCEPT
                              ![ErrorSlot(m_error_count)] = Swap32(ToWord(kd[t].new_code))]
  /\ kd' = [kd EXCEPT ![t].pc = "log_load"]
  /\ UNCHANGED <<m_error_count, m_scheduler_buffer_lock, m_mail_span, m_download_span,
                 kd_calls, kd_base_count, kd_increments, jitVars>>

\* m_error_count++: the load
LogErrorLoadCount(t) ==
  /\ kd[t].pc = "log_load"
  /\ kd' = [kd EXCEPT ![t].pc = "log_store", ![t].loaded = m_error_count]
  /\ UNCHANGED <<m_scheduler_buffer, m_error_count, m_scheduler_buffer_lock, m_mail_span,
                 m_download_span, kd_calls, kd_base_count, kd_increments, jitVars>>

\* m_error_count++: the store
LogErrorStoreCount(t) ==
  /\ kd[t].pc = "log_store"
  /\ m_error_count' = U32Inc(kd[t].loaded)
  /\ kd_increments' = kd_increments + 1
  /\ kd' = [kd EXCEPT ![t].pc = "log_word5"]
  /\ UNCHANGED <<m_scheduler_buffer, m_scheduler_buffer_lock, m_mail_span, m_download_span,
                 kd_calls, kd_base_count, jitVars>>

\* m_scheduler_buffer[5] = Common::swap32(m_error_count)
LogErrorWriteCount(t) ==
  /\ kd[t].pc = "log_word5"
  /\ m_scheduler_buffer' = [m_scheduler_buffer EXCEPT ![5] = Swap32(m_error_count)]
  /\ kd' = [kd EXCEPT ![t].pc = "log_word2"]
  /\ UNCHANGED <<m_error_count, m_scheduler_buffer_lock, m_mail_span, m_download_span,
                 kd_calls, kd_base_count, kd_increments, jitVars>>

\* m_scheduler_buffer[2] = Common::swap32(new_code), and the lock_guard ends
LogErrorWriteCode(t) ==
  /\ kd[t].pc = "log_word2"
  /\ m_scheduler_buffer' = [m_scheduler_buffer EXCEPT ![2] = Swap32(ToWord(kd[t].new_code))]
  /\ m_scheduler_buffer_lock' = "none"
  /\ kd' = [kd EXCEPT ![t] = KDIdle]
  /\ UNCHANGED <<m_error_count, m_mail_span, m_download_span, kd_calls, kd_base_count,
                 kd_increments, jitVars>>

\* A span header: the set of the value it carries, empty when it is absent
SpanHeaders == {{}, {0}, {3}}

\* What m_http.Post and the header lookups return
Responses ==
  [received : BOOLEAN, cd : {"100", "107"}, hmac_matches : BOOLEAN,
   mail_flag_differs : BOOLEAN, mail_span : SpanHeaders, download_span : SpanHeaders]

\* The return statement the response leads to
CheckMailPath(response) ==
  IF ~response.received THEN "http_failure"
  ELSE IF response.cd # "100" THEN "non_100"
  ELSE IF ~response.hmac_matches THEN "hmac_mismatch"
  ELSE "success"

\* if (span == 0) span = 1
SpanStored(value) == IF value = 0 THEN 1 ELSE value

\* TryParse(header, &out): out after the call
Parsed(header, out) == IF header = {} THEN out ELSE CHOOSE v \in header : TRUE

\* Fault: the scope guard counts every mail check
CheckCounted_Always(success) == TRUE

\* if (success) of the scope guard
CheckCounted(success) == success

\* The scope guard is set up and the current function becomes Check
KDCheckMail(t) ==
  /\ kd[t].pc = "idle" /\ kd_calls < MaxKDCalls
  /\ BufferLockFree(t)
  /\ m_scheduler_buffer' = [m_scheduler_buffer EXCEPT
                              ![4] = Swap32(ToWord(CurrentFunction_Check))]
  /\ kd' = [kd EXCEPT ![t] = [KDIdle EXCEPT !.pc = "check_post"]]
  /\ kd_calls' = kd_calls + 1
  /\ UNCHANGED <<m_error_count, m_scheduler_buffer_lock, m_mail_span, m_download_span,
                 kd_base_count, kd_increments, jitVars>>

\* From the request to the return statement
KDCheckMailPost(t, response) ==
  /\ kd[t].pc = "check_post"
  /\ IF CheckMailPath(response) # "success"
       THEN /\ kd' = [kd EXCEPT ![t].pc = "check_exit", ![t].ret = "WC24_ERR_SERVER",
                                ![t].path = CheckMailPath(response)]
            /\ UNCHANGED <<m_mail_span, m_download_span>>
       ELSE LET parsed_interval == Parsed(response.mail_span, kd[t].interval)
                interval == IF response.mail_span = {}
                              THEN parsed_interval
                              ELSE SpanStored(parsed_interval)
            IN /\ m_mail_span' = IF response.mail_span = {}
                                   THEN m_mail_span ELSE interval
               /\ m_download_span' =
                    IF response.download_span = {}
                      THEN m_download_span
                      ELSE SpanStored(Parsed(response.download_span, m_download_span))
               /\ kd' = [kd EXCEPT ![t].pc = "check_exit", ![t].ret = "WC24_OK",
                                   ![t].path = "success", ![t].success = TRUE,
                                   ![t].mail_flag =
                                     IF response.mail_flag_differs THEN 1 ELSE 0,
                                   ![t].interval = interval,
                                   ![t].headers =
                                     <<response.mail_span, response.download_span>>]
  /\ UNCHANGED <<m_scheduler_buffer, m_error_count, m_scheduler_buffer_lock, kd_calls,
                 kd_base_count, kd_increments, jitVars>>

\* The scope guard runs as the function returns
KDCheckMailExit(t) ==
  /\ kd[t].pc = "check_exit"
  /\ BufferLockFree(t)
  /\ m_scheduler_buffer' =
       [m_scheduler_buffer EXCEPT
          ![11] = IF CheckCounted(kd[t].success) THEN Swap32(U32Inc(Swap32(@))) ELSE @,
          ![4] = ToWord(CurrentFunction_None)]
  /\ kd' = [kd EXCEPT ![t].pc = "idle", ![t].success = FALSE]
  /\ UNCHANGED <<m_error_count, m_scheduler_buffer_lock, m_mail_span, m_download_span,
                 kd_calls, kd_base_count, kd_increments, jitVars>>

\* The error code all earlier LogError calls of an instance are taken to have logged
PriorWord == Swap32(ToWord(NewCode("CheckMail", -15)))

\* The ring slot i was written by one of the first count LogError calls
SlotWritten(i, count) ==
  \/ count[1] # 0 \/ count[2] # 0 \/ count[3] # 0 \/ count[4] >= 32
  \/ i - 32 < count[4]

\* The buffer after the constructor and count LogError calls
LoggedBuffer(count) ==
  [i \in BufferIndices |->
     IF i = 1 THEN Swap32(ToWord(-1))
     ELSE IF i = 5 THEN Swap32(count)
     ELSE IF i = 2 /\ count # ZeroWord THEN PriorWord
     ELSE IF i >= 32 /\ SlotWritten(i, count) THEN PriorWord
     ELSE ZeroWord]

\* Error counts to start from: none, one short of the ring's end, the largest u32
InitialErrorCounts == {ZeroWord, ToWord(31), ToWord(-1)}

\* The device with count errors logged and no call in progress
KDConstructed(count) ==
  /\ m_error_count = count
  /\ m_scheduler_buffer = LoggedBuffer(count)
  /\ m_scheduler_buffer_lock = "none"
  /\ m_mail_span = INITIAL_MAIL_SPAN /\ m_download_span = INITIAL_DOWNLOAD_SPAN
  /\ kd = [t \in KDThreads |-> KDIdle]
  /\ kd_calls = 0
  /\ kd_base_count = count
  /\ kd_increments = 0

\* The device as its constructor leaves it
NoKD == KDConstructed(ZeroWord)

----------------------------------------------------------------------------
\* Initial states: the engine as the constructor leaves it

NoOptions ==
  [fastmem |-> FALSE, memcheck |-> FALSE, fp_exceptions |-> FALSE,
   div_by_zero_exceptions |-> FALSE]

\* The constructor's RefreshConfig, reading configuration c
Constructed(c) ==
  /\ config = c
  /\ bJIT = c.debug_jit
  /\ m_enable_debugging = c.debugging
  /\ m_enable_float_exceptions = c.float_exceptions
  /\ m_enable_div_by_zero_exceptions = c.div_by_zero_exceptions
  /\ m_low_dcbz_hack = RefreshedLowDcbzHack(c)
  /\ m_fprf = c.fprf
  /\ m_accurate_nans = c.accurate_nans
  /\ m_fastmem_enabled = RefreshedFastmem(c)
  /\ m_mmu_enabled = c.mmu
  /\ m_pause_on_panic_enabled = c.pause_on_panic
  /\ m_accurate_cpu_cache_enabled = c.accurate_cpu_cache
  /\ analyzer = RefreshedAnalyzer(c)
  /\ jo_fastmem = FALSE /\ jo_memcheck = FALSE
  /\ jo_fp_exceptions = FALSE /\ jo_div_by_zero_exceptions = FALSE
  /\ m_enable_blr_optimization = FALSE
  /\ m_cleanup_after_stackfault = FALSE
  /\ m_stack_guard = NULL
  /\ protected = {}
  /\ fault_handled = FALSE
  /\ ever_faulted = FALSE
  /\ arming_failure = "none"
  /\ stack_middle_addr = NULL
  /\ op = "JitBase" /\ ret = "void" /\ caller_is_cpu = TRUE /\ calls = <<>>
  /\ alt_jo = NoOptions
  /\ alt_prev_agreed = TRUE
  /\ fp_flags = {}
  /\ merge_count = 0 /\ merge_reads = {}
  /\ cpu_pc = "idle" /\ refresher = "none" /\ refresh_pc = "none"
  /\ pending = 0 /\ notified = 0 /\ started = 0 /\ refreshed = 0
  /\ committed = Snapshot /\ seen = NoRead
  /\ alive = TRUE
  /\ pc = WINDOW_START /\ block_cache = {} /\ dispatch_result = NULL

\* The constructor's Config::AddConfigChangedCallback returned id
Registered(id) ==
  /\ m_registered_config_callback_id = id
  /\ registered = {id}

\* No block is being compiled: the window holds the current instruction alone
NoWindow ==
  /\ cpu_stepping = FALSE
  /\ js_instructionsLeft = 0
  /\ js_op = [i \in {0} |-> [address |-> WindowAddress(0), isBranchTarget |-> FALSE]]
  /\ breakpoints = {}

Init ==
  /\ win32 \in BOOLEAN
  /\ stack_base \in StackBases /\ stack_size \in StackSizes /\ page_size \in PageSizes
  /\ \E c \in Configs : Constructed(c)
  /\ jo_enableBlocklink \in BOOLEAN /\ jo_fastmem_arena \in BOOLEAN
  /\ memchecks = 0
  /\ msr_DR \in BOOLEAN
  /\ alt_msr_DR = msr_DR
  /\ Registered(1)
  /\ NoKD
  /\ NoWindow

Next ==
  \/ \E c \in Reread(ConfigKeys) : RefreshConfig(c)
  \/ InitBLROptimization
  \/ \E o \in MiddleOffsets : ProtectStack(stack_base + o)
  \/ UnprotectStack
  \/ \E is_cpu_thread \in BOOLEAN : HandleStackFault(is_cpu_thread)
  \/ CleanUpAfterStackFault
  \/ UpdateMemoryAndExceptionOptions
  \/ AddMemCheck
  \/ RemoveMemCheck
  \/ \E dr \in BOOLEAN : WriteMSR(dr)

Spec == Init /\ [][Next]_vars

\* The stack guard alone: options, watchpoints and MSR stay as constructed
InitGuard ==
  /\ win32 \in BOOLEAN
  /\ stack_base \in StackBases /\ stack_size \in StackSizes /\ page_size \in PageSizes
  /\ \E c \in GuardConfigs : Constructed(c)
  /\ jo_enableBlocklink \in BOOLEAN /\ jo_fastmem_arena = TRUE
  /\ memchecks = 0
  /\ msr_DR = TRUE
  /\ alt_msr_DR = msr_DR
  /\ Registered(1)
  /\ NoKD
  /\ NoWindow

NextGuard ==
  \/ \E c \in Reread(GuardKeys) : RefreshConfig(c)
  \/ InitBLROptimization
  \/ \E o \in MiddleOffsets : ProtectStack(stack_base + o)
  \/ UnprotectStack
  \/ \E is_cpu_thread \in BOOLEAN : HandleStackFault(is_cpu_thread)
  \/ CleanUpAfterStackFault

SpecGuard == InitGuard /\ [][NextGuard]_vars

\* The stack guard with an execution thread that keeps reaching the dispatch
\* boundary, where CleanUpAfterStackFault is called
SpecGuardFair == SpecGuard /\ WF_vars(CleanUpAfterStackFault)

\* The option derivation alone: the stack guard stays as constructed
InitOptions ==
  /\ win32 = FALSE
  /\ stack_base = 4 /\ stack_size = 128 /\ page_size = 1
  /\ \E c \in OptionConfigs : Constructed(c)
  /\ jo_enableBlocklink = TRUE /\ jo_fastmem_arena \in BOOLEAN
  /\ memchecks = 0
  /\ msr_DR \in BOOLEAN
  /\ alt_msr_DR = msr_DR
  /\ Registered(1)
  /\ NoKD
  /\ NoWindow

NextOptions ==
  \/ \E c \in Reread(OptionKeys) : RefreshConfig(c)
  \/ UpdateMemoryAndExceptionOptions
  \/ AddMemCheck
  \/ RemoveMemCheck
  \/ \E dr \in BOOLEAN : WriteMSR(dr)

SpecOptions == InitOptions /\ [][NextOptions]_vars

\* Two engine runs side by side that agree on the configuration, the watchpoints
\* and the arena
NextPair ==
  \/ \E c \in Reread(OptionKeys) : RefreshConfig(c)
  \/ UpdateMemoryAndExceptionOptionsPair
  \/ AddMemCheck
  \/ RemoveMemCheck
  \/ \E dr \in BOOLEAN : WriteMSR(dr)
  \/ \E dr \in BOOLEAN : AltWriteMSR(dr)

SpecPair == InitOptions /\ [][NextPair]_vars

\* The settings ShouldHandleFPExceptionForInstruction depends on
FPKeys == {"float_exceptions", "div_by_zero_exceptions"}

\* The per-instruction exception decision: options derived from the two fidelity
\* settings, instructions with every combination of flags
InitFP ==
  /\ win32 = FALSE
  /\ stack_base = 4 /\ stack_size = 128 /\ page_size = 1
  /\ \E c \in ConfigsVarying(FPKeys) : Constructed(c)
  /\ jo_enableBlocklink = TRUE /\ jo_fastmem_arena = TRUE
  /\ memchecks = 0
  /\ msr_DR = TRUE
  /\ alt_msr_DR = msr_DR
  /\ Registered(1)
  /\ NoKD
  /\ NoWindow

NextFP ==
  \/ \E c \in Reread(FPKeys) : RefreshConfig(c)
  \/ UpdateMemoryAndExceptionOptions
  \/ \E flags \in SUBSET InstructionFlags : ShouldHandleFPExceptionForInstruction(flags)

SpecFP == InitFP /\ [][NextFP]_vars

\* The merge decision: every window, breakpoint set and stepping state a block
\* under compilation can present, with debugging on or off
InitMerge ==
  /\ win32 = FALSE
  /\ stack_base = 4 /\ stack_size = 128 /\ page_size = 1
  /\ \E c \in ConfigsVarying({"debugging"}) : Constructed(c)
  /\ jo_enableBlocklink = TRUE /\ jo_fastmem_arena = TRUE
  /\ memchecks = 0
  /\ msr_DR = TRUE
  /\ alt_msr_DR = msr_DR
  /\ Registered(1)
  /\ NoKD
  /\ cpu_stepping \in BOOLEAN
  /\ js_instructionsLeft \in 0..MaxInstructionsLeft
  /\ js_op \in ContiguousWindows(js_instructionsLeft)
  /\ breakpoints \in SUBSET {WindowAddress(i) : i \in 0..MaxInstructionsLeft}

NextMerge ==
  \/ \E c \in Reread({"debugging"}) : RefreshConfig(c)
  \/ \E count \in -1..(MaxInstructionsLeft + 1) : CanMergeNextInstructions(count)

SpecMerge == InitMerge /\ [][NextMerge]_vars

\* The settings RefreshConfig passes on to the analyzer
AnalyzerKeys == {"debugging", "float_exceptions", "div_by_zero_exceptions", "follow_branch"}

\* The analyzer flags: every combination of the four settings, refreshed,
\* turned into options and consulted for an instruction
InitAnalyzer ==
  /\ win32 = FALSE
  /\ stack_base = 4 /\ stack_size = 128 /\ page_size = 1
  /\ \E c \in ConfigsVarying(AnalyzerKeys) : Constructed(c)
  /\ jo_enableBlocklink = TRUE /\ jo_fastmem_arena = TRUE
  /\ memchecks = 0
  /\ msr_DR = TRUE
  /\ alt_msr_DR = msr_DR
  /\ Registered(1)
  /\ NoKD
  /\ NoWindow

NextAnalyzer ==
  \/ \E c \in Reread(AnalyzerKeys) : RefreshConfig(c)
  \/ UpdateMemoryAndExceptionOptions
  \/ \E flags \in SUBSET InstructionFlags : ShouldHandleFPExceptionForInstruction(flags)

SpecAnalyzer == InitAnalyzer /\ [][NextAnalyzer]_vars

\* Notifications beside the CPU thread: the configuration store changes on any
\* thread while the CPU thread dispatches and runs compiled code
InitNotify ==
  /\ win32 = FALSE
  /\ stack_base = 4 /\ stack_size = 128 /\ page_size = 1
  /\ \E c \in ConfigsVarying(NotifyKeys) : Constructed(c)
  /\ jo_enableBlocklink = TRUE /\ jo_fastmem_arena = TRUE
  /\ memchecks = 0
  /\ msr_DR = TRUE
  /\ alt_msr_DR = msr_DR
  /\ Registered(1)
  /\ NoKD
  /\ NoWindow

NextNotify ==
  \/ \E c \in Reread(NotifyKeys) : \E from \in Threads : ConfigChanged(c, from)
  \/ \E thread \in Threads : RefreshReads(thread)
  \/ RefreshOverride
  \/ RefreshAnalyzer
  \/ Dispatch
  \/ CompiledCode
  \/ LeaveCompiledCode

SpecNotify == InitNotify /\ [][NextNotify]_vars

\* The dispatcher and the block cache, with the stack fault that empties it
InitDispatch ==
  /\ win32 = FALSE
  /\ stack_base = 4 /\ stack_size = 128 /\ page_size = 1
  /\ \E c \in ConfigsVarying({"fastmem"}) : Constructed(c)
  /\ jo_enableBlocklink = TRUE /\ jo_fastmem_arena = TRUE
  /\ memchecks = 0
  /\ msr_DR = TRUE
  /\ alt_msr_DR = msr_DR
  /\ Registered(1)
  /\ NoKD
  /\ NoWindow

NextDispatch ==
  \/ Dispatch
  \/ CompiledCode
  \/ \E a \in GuestPCs : GuestBranch(a)
  \/ LeaveCompiledCode
  \/ InitBLROptimization
  \/ \E is_cpu_thread \in BOOLEAN : HandleStackFault(is_cpu_thread)
  \/ CleanUpAfterStackFault

SpecDispatch == InitDispatch /\ [][NextDispatch]_vars

\* Notifications up to and beyond the destruction of the instance
InitTeardown ==
  /\ win32 = FALSE
  /\ stack_base = 4 /\ stack_size = 128 /\ page_size = 1
  /\ \E c \in ConfigsVarying(NotifyKeys) : Constructed(c)
  /\ jo_enableBlocklink = TRUE /\ jo_fastmem_arena = TRUE
  /\ memchecks = 0
  /\ msr_DR = TRUE
  /\ alt_msr_DR = msr_DR
  /\ \E id \in CallbackIds : Registered(id)
  /\ NoKD
  /\ NoWindow

NextTeardown ==
  \/ NextNotify
  \/ DestroyJitBase
  \/ DanglingRefreshCrashes

SpecTeardown == InitTeardown /\ [][NextTeardown]_vars

\* The error log alone: LogError on two threads, from each starting count
InitKDLog ==
  /\ win32 = FALSE
  /\ stack_base = 4 /\ stack_size = 128 /\ page_size = 1
  /\ Constructed(DefaultConfig)
  /\ jo_enableBlocklink = TRUE /\ jo_fastmem_arena = TRUE
  /\ memchecks = 0
  /\ msr_DR = TRUE
  /\ alt_msr_DR = msr_DR
  /\ Registered(1)
  /\ NoWindow
  /\ \E count \in InitialErrorCounts : KDConstructed(count)

NextKDLog ==
  \E t \in KDThreads :
    \/ \E error_type \in ErrorTypes, error_code \in ErrorCodes :
         LogError(t, error_type, error_code)
    \/ LogErrorLock(t)
    \/ LogErrorWriteSlot(t)
    \/ LogErrorLoadCount(t)
    \/ LogErrorStoreCount(t)
    \/ LogErrorWriteCount(t)
    \/ LogErrorWriteCode(t)

SpecKDLog == InitKDLog /\ [][NextKDLog]_vars

\* The mail check on two threads, beside LogError calls
NextKDMail ==
  \/ NextKDLog
  \/ \E t \in KDThreads :
       \/ KDCheckMail(t)
       \/ \E response \in Responses : KDCheckMailPost(t, response)
       \/ KDCheckMailExit(t)

SpecKDMail == InitKDLog /\ [][NextKDMail]_vars

----------------------------------------------------------------------------
\* Properties of the stack guard (checked under SpecGuard)

\* The members of JitBase and the protection state that HandleStackFault can touch
FaultState == <<m_stack_guard, protected, m_enable_blr_optimization,
                m_cleanup_after_stackfault>>

\* C1: once HandleStackFault has returned true, a further HandleStackFault call
\* on the CPU thread before the next InitBLROptimization returns false, makes no
\* collaborator call (no UnWriteProtectMemory, InvalidateICache or
\* ForceExceptionCheck) and leaves guard, flags and protection unchanged.
C1_SecondFaultIsNoOp ==
  [][ (fault_handled /\ op' = "HandleStackFault" /\ caller_is_cpu')
        => (ret' = "false" /\ calls' = <<>> /\ UNCHANGED FaultState) ]_vars

\* A declined CPU-thread fault in a session whose fault was already handled
C1_Witness ==
  fault_handled /\ op = "HandleStackFault" /\ caller_is_cpu /\ ret = "false"

C3_DeclinedFaultChangesNothing ==
  [][ (op' = "HandleStackFault" /\ (~m_enable_blr_optimization \/ ~caller_is_cpu'))
        => (ret' = "false" /\ calls' = <<>>
            /\ UNCHANGED <<FaultState, snapVars, joInVars, joOutVars>>) ]_vars

\* A fault arrived on a foreign thread while the guard was armed, and was declined
C3_Witness ==
  /\ op = "HandleStackFault" /\ ~caller_is_cpu /\ ret = "false"
  /\ m_enable_blr_optimization /\ m_stack_guard # NULL /\ m_stack_guard \in protected

\* C4: HandleStackFault on the CPU thread with the optimisation enabled returns
\* true with the guard unprotected and null, the optimisation off, the block cache
\* invalidated over 0..0xffffffff with the forced flag, ForceExceptionCheck(0)
\* called and the cleanup pending.
C4_ClaimedFaultPostState ==
  [][ (op' = "HandleStackFault" /\ caller_is_cpu' /\ m_enable_blr_optimization)
        => /\ ret' = "true"
           /\ m_stack_guard' = NULL /\ protected' = {}
           /\ ~m_enable_blr_optimization'
           /\ MadeCall(Call("InvalidateICache", <<"0", "0xffffffff", "true">>))'
           /\ MadeCall(Call("ForceExceptionCheck", <<"0">>))'
           /\ m_cleanup_after_stackfault' ]_vars

\* A claimed fault that removed the protection of an armed guard
C4_Witness ==
  op = "HandleStackFault" /\ ret = "true" /\ Made("UnWriteProtectMemory")

\* C5: ClearCache and _resetstkoflw are called by CleanUpAfterStackFault alone,
\* never by HandleStackFault, and only after HandleStackFault has returned true.
C5_CleanupIsDeferred ==
  (Made("ClearCache") \/ Made("_resetstkoflw"))
    => (op = "CleanUpAfterStackFault" /\ fault_handled)

\* The deferred cleanup has run on the stack-guarantee path
C5_Witness ==
  op = "CleanUpAfterStackFault" /\ Made("ClearCache") /\ Made("_resetstkoflw") /\ win32

----------------------------------------------------------------------------
\* Properties of the option derivation (checked under SpecOptions and SpecPair)

Updated == op = "UpdateMemoryAndExceptionOptions"

\* C6: whenever the configuration read has accurate-data-cache on, the snapshot
\* has fastmem and the low-DCBZ hack off, and the options that
\* UpdateMemoryAndExceptionOptions derives from it have jo.fastmem off.
C6_AccurateCacheForcesFastmemOff ==
  config.accurate_cpu_cache
    => /\ ~m_fastmem_enabled /\ ~m_low_dcbz_hack
       /\ Updated => ~jo_fastmem

\* Options derived with accurate-data-cache on and everything else asking for fastmem
C6_Witness ==
  /\ Updated /\ config.accurate_cpu_cache /\ config.fastmem /\ config.low_dcbz_hack
  /\ jo_fastmem_arena /\ msr_DR /\ memchecks = 0

\* C7 as stated: after UpdateMemoryAndExceptionOptions jo.fastmem is on exactly
\* when fastmem is configured, the arena is available and (data address
\* translation is disabled or there is no watchpoint).
C7_FastmemIffTranslationOff ==
  Updated => (jo_fastmem <=> (m_fastmem_enabled /\ jo_fastmem_arena
                               /\ (~msr_DR \/ memchecks = 0)))

\* C7 amended: after UpdateMemoryAndExceptionOptions jo.fastmem is on exactly
\* when fastmem is configured, the arena is available and (data address
\* translation is enabled, MSR.DR = 1, or there is no watchpoint).
C7_FastmemIffTranslationOn ==
  Updated => (jo_fastmem <=> (m_fastmem_enabled /\ jo_fastmem_arena
                               /\ (msr_DR \/ memchecks = 0)))

\* Fastmem derived on with a watchpoint set, through MSR.DR = 1
C7_Witness ==
  Updated /\ jo_fastmem /\ memchecks > 0 /\ msr_DR

\* C8: after UpdateMemoryAndExceptionOptions jo.memcheck is on exactly when MMU
\* mode or pause-on-panic mode was on at the latest refresh or a watchpoint exists.
C8_MemcheckIffAnyReason ==
  Updated => (jo_memcheck <=> (config.mmu \/ config.pause_on_panic \/ memchecks > 0))

\* Memcheck derived on for pause-on-panic alone
C8_Witness ==
  Updated /\ jo_memcheck /\ ~config.mmu /\ config.pause_on_panic /\ memchecks = 0

\* C9: after UpdateMemoryAndExceptionOptions jo.fp_exceptions and
\* jo.div_by_zero_exceptions equal the float-exception and divide-by-zero
\* settings read by the latest RefreshConfig.
C9_ExceptionOptionsFollowConfig ==
  Updated => /\ jo_fp_exceptions = config.float_exceptions
             /\ jo_div_by_zero_exceptions = config.div_by_zero_exceptions

\* The two exception options derived with different values, amid watchpoints and MMU mode
C9_Witness ==
  /\ Updated /\ jo_fp_exceptions /\ ~jo_div_by_zero_exceptions
  /\ memchecks > 0 /\ config.mmu /\ ~msr_DR

----------------------------------------------------------------------------
\* Properties of ShouldHandleFPExceptionForInstruction (checked under SpecFP)

AskedFP == op = "ShouldHandleFPExceptionForInstruction"

\* C11: ShouldHandleFPExceptionForInstruction returns true exactly when
\* jo.fp_exceptions is set and the instruction has FL_FLOAT_EXCEPTION, or
\* jo.fp_exceptions is clear, jo.div_by_zero_exceptions is set and the instruction
\* has FL_FLOAT_DIV.
C11_FPExceptionDecision ==
  AskedFP =>
    (ret = "true" <=>
       \/ jo_fp_exceptions /\ "FL_FLOAT_EXCEPTION" \in fp_flags
       \/ ~jo_fp_exceptions /\ jo_div_by_zero_exceptions /\ "FL_FLOAT_DIV" \in fp_flags)

\* The scenario of the claim: float fidelity on, divide fidelity off, an
\* instruction that can raise a float exception and is no divide
C11_Witness ==
  /\ AskedFP /\ ret = "true"
  /\ config.float_exceptions /\ ~config.div_by_zero_exceptions
  /\ jo_fp_exceptions /\ ~jo_div_by_zero_exceptions
  /\ "FL_FLOAT_EXCEPTION" \in fp_flags /\ "FL_FLOAT_DIV" \notin fp_flags

----------------------------------------------------------------------------
\* Properties of CanMergeNextInstructions (checked under SpecMerge)

AskedMerge == op = "CanMergeNextInstructions"

\* The window positions among the next merge_count that hold an instruction
NextPositions == {i \in 1..merge_count : i \in DOMAIN js_op}

\* C12: CanMergeNextInstructions(n) returns false when one of the next n
\* instructions is a branch target, with debugging on or off, and returns false
\* when debugging is on and one of them is at a breakpoint address.
C12_BranchTargetOrBreakpointForbidsMerge ==
  AskedMerge =>
    /\ (\E i \in NextPositions : js_op[i].isBranchTarget) => ret = "false"
    /\ (m_enable_debugging /\ \E i \in NextPositions : js_op[i].address \in breakpoints)
         => ret = "false"

\* Debugging off, nothing else in the way, the second of two instructions a branch target
C12_Witness ==
  /\ AskedMerge /\ ret = "false" /\ merge_count = 2
  /\ ~m_enable_debugging /\ ~cpu_stepping /\ js_instructionsLeft >= 2
  /\ ~js_op[1].isBranchTarget /\ js_op[2].isBranchTarget

\* C13: CanMergeNextInstructions(count) returns false when the CPU is stepping,
\* and returns false without reading the window when fewer than count
\* instructions remain; it never reads an entry beyond the remaining instructions.
C13_SteppingOrShortWindowForbidsMerge ==
  AskedMerge =>
    /\ cpu_stepping => ret = "false"
    /\ js_instructionsLeft < merge_count => (ret = "false" /\ merge_reads = {})
    /\ merge_reads \subseteq 1..js_instructionsLeft

\* Stepping is the only thing in the way of merging two instructions
C13_Witness ==
  /\ AskedMerge /\ ret = "false" /\ cpu_stepping /\ merge_count = 2
  /\ js_instructionsLeft >= 2 /\ breakpoints = {}
  /\ \A i \in 1..2 : ~js_op[i].isBranchTarget

\* C14: CanMergeNextInstructions(count) returns true exactly when the CPU is not
\* stepping, at least count instructions remain, none of the next count is a
\* branch target and, if debugging is on, none of them is at a breakpoint.
C14_MergeIffNoDisqualifier ==
  AskedMerge =>
    (ret = "true" <=>
       /\ ~cpu_stepping
       /\ js_instructionsLeft >= merge_count
       /\ \A i \in 1..merge_count :
            /\ ~js_op[i].isBranchTarget
            /\ (~m_enable_debugging \/ js_op[i].address \notin breakpoints))

\* Merged across a breakpoint because debugging is off
C14_Witness ==
  /\ AskedMerge /\ ret = "true" /\ merge_count = 2
  /\ ~m_enable_debugging /\ WindowAddress(1) \in breakpoints

----------------------------------------------------------------------------
\* Properties of arming the stack guard (checked under SpecGuard)

\* This step is a ProtectStack call that got past its early return on the
\* page-protection path
ArmingAttempt == op' = "ProtectStack" /\ m_enable_blr_optimization /\ ~win32

\* An arming check of the attempt fails: the position is outside the reported
\* bounds, the page size is not positive, or the margin is not enough
ArmingCheckFails ==
  \/ stack_middle_addr' < stack_base
  \/ stack_middle_addr' >= stack_base + stack_size
  \/ page_size <= 0
  \/ StackGuardAddr >= stack_middle_addr'
  \/ stack_middle_addr' - StackGuardAddr < GUARD_SIZE + MIN_UNSAFE_STACK_SIZE

OneDiagnostic == Len(calls) = 1 /\ calls[1].fn = "PanicAlertFmt"

StackBaseDiagnostic == "Failed to get correct stack base"

\* C16: a ProtectStack attempt whose stack position is outside the reported
\* bounds reports exactly one diagnostic and disables the optimisation; until
\* the next InitBLROptimization the optimisation stays off and every
\* HandleStackFault call returns false, makes no call and changes nothing.
C16_OutOfBoundsDisablesForSession ==
  [][/\ (ArmingAttempt /\ (\/ stack_middle_addr' < stack_base
                             \/ stack_middle_addr' >= stack_base + stack_size)) =>
          /\ calls' = <<Call("PanicAlertFmt", <<StackBaseDiagnostic>>)>>
          /\ arming_failure' = StackBaseDiagnostic
     /\ arming_failure' = StackBaseDiagnostic => ~m_enable_blr_optimization'
     /\ (arming_failure = StackBaseDiagnostic /\ op' = "HandleStackFault") =>
          /\ ret' = "false" /\ calls' = <<>>
          /\ UNCHANGED <<m_enable_blr_optimization, m_cleanup_after_stackfault,
                         m_stack_guard, protected>>]_vars

\* The fault handler declines on the CPU thread after an out-of-bounds attempt
C16_Witness ==
  /\ arming_failure = StackBaseDiagnostic /\ stack_middle_addr >= stack_base + stack_size
  /\ op = "HandleStackFault" /\ caller_is_cpu /\ ret = "false"

Armed == op = "ProtectStack" /\ Len(calls) = 1 /\ calls[1].fn = "ReadProtectMemory"

RequiredMargin == GUARD_SIZE + MIN_UNSAFE_STACK_SIZE

\* C17 as stated: the guard is armed only when the space between the guard
\* and the stack position is strictly greater than the required margin.
C17_ArmsOnlyAboveMargin ==
  Armed => stack_middle_addr - m_stack_guard > RequiredMargin

\* C17: an attempt that passed the bounds and page-size checks arms the guard
\* exactly when the space between the guard and the stack position is at least
\* MIN_UNSAFE_STACK_SIZE + GUARD_SIZE, equality included; otherwise it disables
\* the optimisation with a diagnostic.
C17_ArmsIffAtLeastMargin ==
  [][(/\ ArmingAttempt
      /\ stack_middle_addr' >= stack_base
      /\ stack_middle_addr' < stack_base + stack_size
      /\ page_size > 0) =>
       IF stack_middle_addr' - StackGuardAddr >= RequiredMargin
         THEN /\ m_stack_guard' = StackGuardAddr
              /\ StackGuardAddr \in protected'
              /\ calls' = <<Call("ReadProtectMemory",
                                 <<ToString(StackGuardAddr), ToString(GUARD_SIZE)>>)>>
              /\ m_enable_blr_optimization'
         ELSE /\ calls' = <<Call("PanicAlertFmt",
                                 <<"Stack is too small for BLR optimization">>)>>
              /\ ~m_enable_blr_optimization'
              /\ m_stack_guard' = m_stack_guard]_vars

\* Armed with exactly the required margin
C17_Witness == Armed /\ stack_middle_addr - m_stack_guard = RequiredMargin

\* C18: InitBLROptimization enables the optimisation exactly when block linking
\* is enabled, fastmem is enabled and debugging is not, and protects nothing
\* itself; memory becomes protected only in a ProtectStack step taken while the
\* optimisation is enabled.
C18_InitEnablesIffPrerequisites ==
  [][/\ op' = "InitBLROptimization" =>
          /\ m_enable_blr_optimization' =
               (jo_enableBlocklink /\ m_fastmem_enabled /\ ~m_enable_debugging)
          /\ m_stack_guard' = m_stack_guard /\ protected' = protected
     /\ (~(protected' \subseteq protected) \/ m_stack_guard' \notin {m_stack_guard, NULL}) =>
          (op' = "ProtectStack" /\ m_enable_blr_optimization)]_vars

\* Debugging alone keeps the optimisation off
C18_Witness ==
  /\ op = "InitBLROptimization" /\ ~m_enable_blr_optimization
  /\ jo_enableBlocklink /\ m_fastmem_enabled /\ m_enable_debugging

----------------------------------------------------------------------------
\* Properties of configuration-changed notifications (checked under SpecNotify)

\* C19: every configuration-changed notification, whatever thread raises it,
\* gets exactly one RefreshConfig execution, still pending or begun; each
\* execution runs on the CPU thread, handed over by Core::RunAsCPUThread, and
\* none runs while the CPU thread is in Dispatch or in compiled code.
C19_OneRefreshPerNotificationOnCPUThread ==
  /\ started + pending = notified
  /\ refreshed + (IF refresher = "none" THEN 0 ELSE 1) = started
  /\ refresher # "none" => (refresher = "cpu" /\ cpu_pc = "idle")
  /\ op = "RefreshConfig" => caller_is_cpu
  /\ op = "ConfigChanged" => calls = <<Call("RunAsCPUThread", <<"RefreshConfig">>)>>

\* One notification has had its one RefreshConfig, which changed the snapshot
\* the CPU thread had last read
C19_Witness ==
  /\ op = "RefreshConfig" /\ refresh_pc = "none"
  /\ notified = 1 /\ refreshed = 1 /\ pending = 0
  /\ "m_accurate_cpu_cache_enabled" \in DOMAIN seen
  /\ committed.m_accurate_cpu_cache_enabled # seen.m_accurate_cpu_cache_enabled

\* C20: every read of the snapshot by the CPU thread, in Dispatch or on entry to
\* compiled code, finds it as the latest completed RefreshConfig left it, with
\* no RefreshConfig under way, and never with the accurate CPU cache enabled
\* together with fastmem or the DCBZ hack.
C20_NoHalfUpdatedSnapshotRead ==
  [][op' \in {"Dispatch", "CompiledCode"} =>
       /\ seen' = committed
       /\ refresh_pc = "none"
       /\ ~(seen'.m_accurate_cpu_cache_enabled
             /\ (seen'.m_fastmem_enabled \/ seen'.m_low_dcbz_hack))]_vars

\* The CPU thread enters compiled code on the old snapshot while a notification
\* that turns the accurate CPU cache on is waiting
C20_Witness ==
  /\ op = "ConfigChanged" /\ ~caller_is_cpu /\ cpu_pc = "compiled" /\ pending = 1
  /\ config.accurate_cpu_cache /\ config.fastmem
  /\ ~seen.m_accurate_cpu_cache_enabled /\ seen.m_fastmem_enabled
  /\ seen = committed

----------------------------------------------------------------------------
\* Properties that tie the option values to the snapshot (checked under SpecOptions)

\* The option values are those UpdateMemoryAndExceptionOptions would derive now
OptionsAgree == CurrentOptions = UpdatedOptions(CurrentOptions, msr_DR)

\* C21: a RefreshConfig that starts with option values that agree with the
\* snapshot and the watchpoints ends with option values that agree with the
\* snapshot it has taken: the options are recomputed with the snapshot.
C21_OptionsRecomputedWithSnapshot ==
  [][(op' = "RefreshConfig" /\ OptionsAgree) => OptionsAgree']_vars

----------------------------------------------------------------------------
\* Properties of the instance's lifetime (checked under SpecTeardown)

\* C22: while the instance lives exactly its one callback id is registered; the
\* destructor removes that id, and once the instance is destroyed no
\* notification, not even one handed over before the destruction, runs
\* RefreshConfig on it.
C22_NoRefreshAfterDestruction ==
  /\ alive => registered = {m_registered_config_callback_id}
  /\ ~alive => (registered = {} /\ op \notin {"RefreshConfig", "crash"})

----------------------------------------------------------------------------
\* Properties of the guard region's lifetime (checked under SpecGuard)

\* HandleStackFault claimed the fault in this step
ClaimsFault == op' = "HandleStackFault" /\ ret' = "true"

\* C23: at most one guard region is protected at any time, and it is the one
\* m_stack_guard records; UnprotectStack and a HandleStackFault that claims the
\* fault leave m_stack_guard null and nothing protected, restoring access over
\* GUARD_SIZE at the guard that was recorded.
C23_OneGuardRegionReleased ==
  [][/\ Cardinality(protected') <= 1
     /\ protected' = (IF m_stack_guard' = NULL THEN {} ELSE {m_stack_guard'})
     /\ (op' = "UnprotectStack" \/ ClaimsFault) =>
          /\ m_stack_guard' = NULL /\ protected' = {}
          /\ m_stack_guard # NULL =>
               \E i \in 1..Len(calls') :
                 calls'[i] = Call("UnWriteProtectMemory",
                                  <<ToString(m_stack_guard), ToString(GUARD_SIZE)>>)]_vars

\* A claimed fault released the armed guard
C23_Witness ==
  /\ op = "HandleStackFault" /\ ret = "true" /\ Made("UnWriteProtectMemory")
  /\ m_stack_guard = NULL /\ protected = {}

----------------------------------------------------------------------------
\* Properties of the analyzer flags (checked under SpecAnalyzer)

\* C25: after every RefreshConfig the analyzer's debugging, float-exception and
\* divide-by-zero-exception flags equal m_enable_debugging,
\* m_enable_float_exceptions and m_enable_div_by_zero_exceptions of the snapshot
\* just taken, and its branch-following flag equals the follow-branch setting.
C25_AnalyzerFollowsSnapshot ==
  op = "RefreshConfig" =>
    /\ analyzer.debugging = m_enable_debugging
    /\ analyzer.float_exceptions = m_enable_float_exceptions
    /\ analyzer.div_by_zero_exceptions = m_enable_div_by_zero_exceptions
    /\ analyzer.branch_following = config.follow_branch

\* A refresh that found debugging and branch following on, float exceptions off
C25_Witness ==
  /\ op = "RefreshConfig"
  /\ analyzer.debugging /\ analyzer.branch_following /\ ~analyzer.float_exceptions

----------------------------------------------------------------------------
\* Further properties of the stack guard (checked under SpecGuard)

C28_UnprotectStackIdempotent ==
  [][(op' = "UnprotectStack" /\ (op = "UnprotectStack" \/ m_stack_guard = NULL)) =>
       /\ calls' = <<>>
       /\ UNCHANGED <<m_stack_guard, protected, m_enable_blr_optimization,
                      m_cleanup_after_stackfault>>]_vars

\* An UnprotectStack with nothing to release while the optimisation is enabled
\* and an arming attempt has been made
C28_Witness ==
  /\ op = "UnprotectStack" /\ calls = <<>> /\ ~win32
  /\ m_enable_blr_optimization /\ stack_middle_addr # NULL /\ arming_failure = "none"
  /\ m_stack_guard = NULL /\ protected = {}

\* C29: whenever m_enable_blr_optimization is true the arming prerequisites
\* hold: block linking is enabled, m_fastmem_enabled is true and
\* m_enable_debugging is false.
C29_EnabledImpliesPrerequisites ==
  m_enable_blr_optimization =>
    (jo_enableBlocklink /\ m_fastmem_enabled /\ ~m_enable_debugging)

\* C30: an InitBLROptimization that finds the accurate CPU cache enabled in the
\* snapshot leaves the optimisation disabled; the optimisation becomes enabled
\* only in InitBLROptimization, and a ProtectStack that finds it disabled makes
\* no call and protects no memory.
C30_AccurateCacheKeepsGuardOff ==
  [][/\ (op' = "InitBLROptimization" /\ m_accurate_cpu_cache_enabled) =>
          ~m_enable_blr_optimization'
     /\ (~m_enable_blr_optimization /\ m_enable_blr_optimization') =>
          op' = "InitBLROptimization"
     /\ (op' = "ProtectStack" /\ ~m_enable_blr_optimization) =>
          (calls' = <<>> /\ protected' = protected /\ m_stack_guard' = m_stack_guard)]_vars

\* The accurate CPU cache alone keeps the optimisation off: fastmem is
\* configured, block linking is enabled and debugging is off
C30_Witness ==
  /\ op = "InitBLROptimization" /\ ~m_enable_blr_optimization
  /\ m_accurate_cpu_cache_enabled /\ config.fastmem
  /\ jo_enableBlocklink /\ ~m_enable_debugging

----------------------------------------------------------------------------
\* Properties of Dispatch (checked under SpecDispatch)

JitCalled == \E i \in 1..Len(calls') : calls'[i].fn = "Jit"

----------------------------------------------------------------------------
\* Liveness of the deferred cleanup (checked under SpecGuardFair)

CleanedUp == op = "CleanUpAfterStackFault" /\ Made("ClearCache")

\* C27 as stated: a pending cleanup is eventually executed by
\* CleanUpAfterStackFault, which runs ClearCache.
C27_CleanupEventuallyRuns ==
  m_cleanup_after_stackfault ~> CleanedUp

\* C27: a pending cleanup is eventually executed by CleanUpAfterStackFault,
\* which runs ClearCache, unless InitBLROptimization resets the pending flag
\* first; once false the flag stays false until HandleStackFault claims another
\* fault.
C27_CleanupRunsUnlessReinitialised ==
  /\ m_cleanup_after_stackfault ~>
       (~m_cleanup_after_stackfault /\ (CleanedUp \/ op = "InitBLROptimization"))
  /\ [][(~m_cleanup_after_stackfault /\ m_cleanup_after_stackfault') => ClaimsFault]_vars

\* The cleanup of a handled fault has run
C27_Witness ==
  CleanedUp /\ fault_handled /\ ~m_cleanup_after_stackfault

----------------------------------------------------------------------------
\* Properties of the pending cleanup and of claimed faults (checked under SpecGuard)

\* C31: in every reachable state a pending cleanup implies that the optimisation
\* is off, m_stack_guard is null and no region is protected, for any interleaving
\* of InitBLROptimization, ProtectStack, UnprotectStack, HandleStackFault and
\* CleanUpAfterStackFault.
C31_PendingCleanupImpliesOffAndUnguarded ==
  m_cleanup_after_stackfault =>
    (~m_enable_blr_optimization /\ m_stack_guard = NULL /\ protected = {})

\* ProtectStack was called while a cleanup was pending
C31_Witness ==
  m_cleanup_after_stackfault /\ op = "ProtectStack" /\ ~win32 /\ ever_faulted

\* C32 as stated: on the page-protection path HandleStackFault returns true only
\* in states where m_stack_guard is non-null.
C32_ClaimsOnlyWhenGuarded ==
  [][ (ClaimsFault /\ ~win32) => m_stack_guard # NULL ]_vars

\* C32: on the page-protection path HandleStackFault returns true exactly when
\* the optimisation is enabled and the fault is delivered on the CPU thread,
\* whether or not a guard region is protected; a fault without a guard is
\* declined only when the optimisation is off or the thread is foreign.
C32_ClaimsIffEnabledOnCPUThread ==
  [][ (op' = "HandleStackFault" /\ ~win32)
        => (ret' = "true" <=> (m_enable_blr_optimization /\ caller_is_cpu')) ]_vars

\* A fault was claimed although no guard region was there to release
C32_Witness ==
  /\ op = "HandleStackFault" /\ ret = "true" /\ caller_is_cpu /\ ~win32
  /\ ~Made("UnWriteProtectMemory")

\* C33 as stated: m_cleanup_after_stackfault is reset only by
\* CleanUpAfterStackFault after it has executed ClearCache.
C33_PendingCleanupNeverLost ==
  [][ (m_cleanup_after_stackfault /\ ~m_cleanup_after_stackfault')
        => (op' = "CleanUpAfterStackFault" /\ Made("ClearCache")') ]_vars

\* C33: m_cleanup_after_stackfault is reset only by CleanUpAfterStackFault after
\* it has executed ClearCache, or by InitBLROptimization, which resets it without
\* a cache flush; no other operation clears the flag.
C33_PendingCleanupResetByCleanUpOrInit ==
  [][ (m_cleanup_after_stackfault /\ ~m_cleanup_after_stackfault')
        => \/ op' = "CleanUpAfterStackFault" /\ Made("ClearCache")'
           \/ op' = "InitBLROptimization" /\ calls' = <<>> ]_vars

\* The cleanup of a fault of this instance has just reset the flag
C33_Witness ==
  /\ op = "CleanUpAfterStackFault" /\ Made("ClearCache") /\ ever_faulted
  /\ ~m_cleanup_after_stackfault /\ ~m_enable_blr_optimization

----------------------------------------------------------------------------
\* Further properties of CanMergeNextInstructions (checked under SpecMerge)

\* No branch target and, with debugging on, no breakpoint at positions 1..count
NextPositionsClean ==
  \A i \in 1..merge_count :
    ~js_op[i].isBranchTarget /\ (~m_enable_debugging \/ js_op[i].address \notin breakpoints)

\* C34: CanMergeNextInstructions(count) reads only window positions 1..count and
\* never position 0, so a branch-target flag or breakpoint on the current
\* instruction does not change the result; js.instructionsLeft = count is enough
\* to merge; and for count <= 0 with stepping off and instructionsLeft >= count
\* the result is true with no window entry read.
C34_CurrentInstructionNotInspected ==
  AskedMerge =>
    /\ merge_reads \subseteq 1..merge_count
    /\ (~cpu_stepping /\ js_instructionsLeft >= merge_count /\ NextPositionsClean)
         => ret = "true"
    /\ (merge_count <= 0 /\ ~cpu_stepping /\ js_instructionsLeft >= merge_count)
         => (ret = "true" /\ merge_reads = {})

\* Merged with exactly count instructions left although the current instruction
\* is a branch target at a breakpoint and debugging is on
C34_Witness ==
  /\ AskedMerge /\ ret = "true" /\ merge_count = 2 /\ js_instructionsLeft = 2
  /\ m_enable_debugging /\ js_op[0].isBranchTarget /\ js_op[0].address \in breakpoints
  /\ merge_reads = {1, 2}

----------------------------------------------------------------------------
\* Precedence in ShouldHandleFPExceptionForInstruction (checked under SpecFP)

\* C35: when jo.fp_exceptions is set the result is the instruction's
\* FL_FLOAT_EXCEPTION flag alone, whatever jo.div_by_zero_exceptions and
\* FL_FLOAT_DIV are; FL_FLOAT_DIV decides only when jo.fp_exceptions is clear.
C35_FloatExceptionOptionTakesPrecedence ==
  AskedFP =>
    /\ jo_fp_exceptions => (ret = "true" <=> "FL_FLOAT_EXCEPTION" \in fp_flags)
    /\ ~jo_fp_exceptions =>
         (ret = "true" <=> (jo_div_by_zero_exceptions /\ "FL_FLOAT_DIV" \in fp_flags))

\* Both options set, a divide that cannot raise a float exception: not handled
C35_Witness ==
  /\ AskedFP /\ ret = "false"
  /\ jo_fp_exceptions /\ jo_div_by_zero_exceptions
  /\ "FL_FLOAT_DIV" \in fp_flags /\ "FL_FLOAT_EXCEPTION" \notin fp_flags

----------------------------------------------------------------------------
\* Placement of the guard region and the disabled ProtectStack (checked under SpecGuard)

\* C36: whenever ProtectStack arms the guard on the page-protection path, the
\* region [m_stack_guard, m_stack_guard + GUARD_SIZE) starts on a page boundary,
\* starts at or above stack base + GUARD_OFFSET, lies inside the reported stack
\* [base, base + size), and ends at least MIN_UNSAFE_STACK_SIZE below the stack
\* position taken at arming time.
C36_GuardRegionPlacement ==
  Armed =>
    /\ m_stack_guard % page_size = 0
    /\ m_stack_guard >= stack_base + GUARD_OFFSET
    /\ m_stack_guard >= stack_base
    /\ m_stack_guard + GUARD_SIZE <= stack_base + stack_size
    /\ m_stack_guard + GUARD_SIZE + MIN_UNSAFE_STACK_SIZE <= stack_middle_addr

\* Armed on a stack whose base + GUARD_OFFSET is not page-aligned: the guard
\* was moved up to the next page boundary
C36_Witness ==
  /\ Armed /\ page_size > 1 /\ (stack_base + GUARD_OFFSET) % page_size # 0
  /\ m_stack_guard > stack_base + GUARD_OFFSET /\ m_stack_guard \in protected

----------------------------------------------------------------------------
\* Properties of NetKDRequestDevice::LogError (checked under SpecKDLog)

\* Thread t takes the step that leaves the function whose last position is at
ReturnsFrom(t, at) == kd[t].pc = at /\ kd'[t].pc = "idle"

\* C38: every LogError call increments m_error_count by exactly one (in u32
\* arithmetic), writes the byte-swapped translated code into ring slot
\* 32 + (previous count mod 32), an index in 32..63, touches no other word than
\* that slot, word 2 and word 5, and returns with word 5 holding the byte-swapped
\* new count and word 2 the byte-swapped latest code; with calls on two threads
\* no increment is lost.
C38_LogErrorAppendsToRing ==
  [][/\ \A t \in KDThreads :
          ReturnsFrom(t, "log_word2") =>
            LET slot == 32 + (kd[t].loaded[4] % 32)
            IN /\ slot \in 32..63
               /\ m_error_count' = U32Inc(kd[t].loaded)
               /\ m_scheduler_buffer'[slot] = Swap32(ToWord(kd[t].new_code))
               /\ m_scheduler_buffer'[5] = Swap32(m_error_count')
               /\ m_scheduler_buffer'[2] = Swap32(ToWord(kd[t].new_code))
     /\ \A i \in BufferIndices :
          m_scheduler_buffer'[i] # m_scheduler_buffer[i] =>
            \E t \in KDThreads :
              \/ kd[t].pc = "log_slot" /\ i = 32 + (m_error_count[4] % 32)
              \/ kd[t].pc = "log_word5" /\ i = 5
              \/ kd[t].pc = "log_word2" /\ i = 2
     /\ m_error_count' # m_error_count => m_error_count' = U32Inc(m_error_count)
     /\ m_error_count' = U32Add(kd_base_count, kd_increments')]_vars

\* Two calls starting from 31 logged errors: the first filled the last ring slot,
\* the second wrapped and overwrote the oldest entry
C38_Witness ==
  /\ kd_base_count = ToWord(31) /\ kd_increments = 2 /\ m_error_count = ToWord(33)
  /\ \A t \in KDThreads : kd[t].pc = "idle"
  /\ m_scheduler_buffer[63] # ZeroWord /\ m_scheduler_buffer[32] # PriorWord
  /\ m_scheduler_buffer[32] = m_scheduler_buffer[2]
  /\ m_scheduler_buffer[5] = <<33, 0, 0, 0>>

----------------------------------------------------------------------------
\* Properties of NetKDRequestDevice::KDCheckMail (checked under SpecKDMail)

CheckMailPaths == {"http_failure", "non_100", "hmac_mismatch", "success"}

\* C39: KDCheckMail returns on each of its paths (HTTP failure, non-100 server
\* code, HMAC mismatch, success) with word 4 reset to None; word 11, read as a
\* big-endian counter, is incremented by exactly one on the success path and is
\* changed by nothing else; a mail or download span of zero received from the
\* server is stored as 1.
C39_CheckMailExitPaths ==
  [][/\ \A t \in KDThreads :
          ReturnsFrom(t, "check_exit") =>
            /\ kd[t].path \in CheckMailPaths
            /\ kd[t].ret = (IF kd[t].path = "success" THEN "WC24_OK" ELSE "WC24_ERR_SERVER")
            /\ m_scheduler_buffer'[4] = ToWord(CurrentFunction_None)
            /\ m_scheduler_buffer'[11] =
                 (IF kd[t].path = "success"
                    THEN Swap32(U32Inc(Swap32(m_scheduler_buffer[11])))
                    ELSE m_scheduler_buffer[11])
     /\ m_scheduler_buffer'[11] # m_scheduler_buffer[11] =>
          \E t \in KDThreads : ReturnsFrom(t, "check_exit") /\ kd[t].path = "success"
     /\ \A t \in KDThreads :
          (kd[t].pc = "check_post" /\ kd'[t].path = "success") =>
            /\ kd'[t].headers[1] = {0} => (m_mail_span' = 1 /\ kd'[t].interval = 1)
            /\ kd'[t].headers[2] = {0} => m_download_span' = 1
     /\ m_mail_span' # 0 /\ m_download_span' # 0]_vars

\* One mail check succeeded with both spans sent as zero, another failed at the
\* request: the counter stands at one and the current function is None
C39_Witness ==
  \E t, u \in KDThreads :
    /\ kd[t].pc = "idle" /\ kd[t].path = "success" /\ kd[t].headers = <<{0}, {0}>>
    /\ kd[u].pc = "idle" /\ kd[u].path = "http_failure" /\ kd[u].ret = "WC24_ERR_SERVER"
    /\ m_scheduler_buffer[11] = <<1, 0, 0, 0>>
    /\ m_scheduler_buffer[4] = ToWord(CurrentFunction_None)
    /\ m_mail_span = 1 /\ m_download_span = 1

====
